---- MODULE Spec2Model ----
(***************************************************************************)
(* NetSignal: the cached network status, the change subscription and the   *)
(* reachability probe of the three JS facades                              *)
(*   WebNetSignal     (src/src/implementations/web.ts)                     *)
(*   NativeNetSignal  (src/src/implementations/native.ts)                  *)
(*   NetSignalImpl    (src/src/index.ts, the "universal" entry)            *)
(* together with the browser (navigator, window, navigator.connection,     *)
(* fetch, timers) and the native module they sit on.                       *)
(***************************************************************************)
EXTENDS Integers, Sequences, FiniteSets, TLC

\* ------------------------------------------------------------------ bounds
MaxSubs == 2        \* onChange calls made in one run
MaxProbes == 2      \* probe calls made in one run
MaxPending == 2     \* browser events queued and not yet dispatched
MaxCallbacks == 3   \* OS network callbacks posted to the Android module in one run
MaxLatency == 310   \* largest latency handed to getQualityFromLatency
MaxRetries == 2     \* largest `retries` option handed to probeWithRetry
MaxUpdates == 2     \* setStatus calls React holds before it renders again
MaxListenerCalls == 3 \* addListener / removeListeners calls made on the Kotlin module
MaxRegistrations == 3 \* addEventListener calls made on one JS module object
MaxUnsubscribeCalls == 2 \* times one returned unsubscribe function is called
MaxMonitorCalls == 3 \* startMonitoring / stopMonitoring calls made in one run
MaxClassListeners == 2 \* addEventListener calls the application makes on NetSignalClass
MaxClock == 2       \* largest value Date.now() takes
MaxHookCalls == 2   \* startMonitoring / stopMonitoring calls made through the hook's result
MaxHookProbes == 3  \* probes one useNetworkProbe component starts
MaxNetworks == 2    \* networks with internet capability the OS has at once
MaxSamples == 3     \* longest list handed to calculateNetworkQuality

\* --------------------------------------------------------- value universes
ConnectionType == {"wifi", "cellular", "ethernet", "none", "unknown"}

\* What navigator.connection shows, as [type, effectiveType].  type "" stands
\* for an absent or empty value, which JS treats as falsy; "bluetooth" is one
\* of the Network Information API types outside ConnectionType.
\* effectiveType is a sequence of characters so that String.prototype.includes
\* can be computed; <<>> is absent.
ConnValues ==
  { [type |-> "wifi", effectiveType |-> <<"4", "g">>],
    [type |-> "bluetooth", effectiveType |-> <<"4", "g">>],
    [type |-> "", effectiveType |-> <<"4", "g">>] }

Impls == {"web", "native", "universal"}

\* ------------------------------------------------------------------- state
VARIABLES
  platform,     \* Platform.OS: "web", "ios" or "android"
  hasNative,    \* NativeModules.NetSignal != null
  hasConn,      \* navigator.connection is defined
  nav,          \* the browser's navigator: [onLine, type, effectiveType]
  pending,      \* the events the browser has queued, oldest first
  state,        \* WebNetSignal.state
  webState,     \* NetSignalImpl.webState
  nativeState,  \* the pair cached by the native module
  winOnline,    \* listeners of window 'online', in registration order
  winOffline,   \* listeners of window 'offline', in registration order
  connChange,   \* listeners of navigator.connection 'change'
  emitterSubs,  \* subscriptions of the NativeEventEmitter to 'connectionChange'
  globalHandlers, \* WebNetSignal.globalHandlers: the cleanup thunks
  listeners,    \* the listeners Map of each facade, as its set of keys
  subs,         \* the onChange calls made so far, in order
  invoked,      \* callbacks run by the last step: set of [id, status]
  ret,          \* what the last step returned, when it was isConnected/getType
  atEvent       \* navigator when the browser last dispatched an event
                \* (at construction before the first one)

apiVars == <<platform, hasNative, hasConn, nav, pending, state, webState, nativeState,
             winOnline, winOffline, connChange, emitterSubs, globalHandlers,
             listeners, subs, invoked, ret, atEvent>>

\* the probe in flight (one probe() call at a time, with its browser objects)
VARIABLES
  pc,           \* "idle", "await" (suspended at the await) or "done"
  call,         \* the call: [impl, url, timeoutMs]
  fetchP,       \* the fetch promise: none, pending, fulfilled, rejected, aborted
  net,          \* the HTTP exchange behind fetch: idle or inflight
  timer,        \* the setTimeout timer: none, armed, cleared, fired
  nativeP,      \* the promise of native.probe: none, pending, settled
  outcome,      \* how the promise returned by probe() settled
  requests,     \* fetch / native.probe calls issued by this probe() call
  settles,      \* times the promise returned by this probe() call was settled
  first,        \* which came first for this call: none, fetch, timer
  probes        \* probe() calls made so far

probeVars == <<pc, call, fetchP, net, timer, nativeP, outcome, requests,
               settles, first, probes>>

\* the Android NetSignalModule with its two threads: the ConnectivityManager's
\* callback thread and the JS thread that calls the synchronous methods
VARIABLES
  aPc,          \* the module / callback thread: "new" (not constructed), "idle",
                \* "writing" (inside updateState, connected written, type not
                \* yet), "updated" (updateState returned, emit not yet called)
  activeCaps,         \* what cm.getNetworkCapabilities(cm.getActiveNetwork()) reports
  connected,    \* private volatile boolean connected
  type,         \* private volatile String type
  cbQueue,      \* OS callbacks posted to the callback thread, oldest first
  capsRead,          \* what updateState read from the ConnectivityManager
  posted,       \* OS callbacks posted so far
  ran,          \* the pair each finished updateState of a callback wrote, in order
  emitted,      \* the payloads handed to RCTDeviceEventEmitter.emit, in order
  pairs,        \* the pairs some updateState wrote together
  rPc,          \* the JS thread: "idle", "mid" (isConnected() returned,
                \* getConnectionType() not yet called) or "done"
  rConnected,   \* what isConnected() returned to the JS thread
  rType         \* what getConnectionType() returned to the JS thread

androidVars == <<aPc, activeCaps, connected, type, cbQueue, capsRead, posted, ran, emitted,
                 pairs, rPc, rConnected, rType>>

\* utils/network-quality: the last getQualityFromLatency call and the
\* probeWithRetry call in progress
VARIABLES
  qCall,        \* the last getQualityFromLatency call: [called, latency, quality]
  rwPc,         \* probeWithRetry: "idle", "probing" (awaiting probe()),
                \* "delay" (awaiting the retry delay) or "done"
  rwRetries,    \* options.retries of the call
  rwCalls,      \* times the call has invoked probe
  rwResults,    \* the ProbeResults of the attempts so far, in order
  rwResult      \* the ExtendedProbeResult the call resolved to

qualityVars == <<qCall>>
retryVars == <<rwPc, rwRetries, rwCalls, rwResults, rwResult>>

\* a component that uses the useNetSignal hook
VARIABLES
  hPc,          \* "unmounted", "rendered" (first render done, effect not yet
                \* run), "mounted" (effect has run) or "gone" (unmounted again)
  hNet,         \* what NetSignal.isConnected() / getType() return now
  hStatus,      \* `status` as the hook returned it at the last render
  hUpdates,     \* the setStatus calls React has not rendered yet, oldest first
  hRead,        \* what the hook last read from NetSignal itself
  hLast,        \* the last event handed to the hook's callback: [seen, status]
  hOnChange,    \* NetSignal.onChange calls made by the hook
  hListening,   \* the hook's callback is subscribed
  hUnsub        \* calls of the unsubscribe function by the effect cleanup

hookVars == <<hPc, hNet, hStatus, hUpdates, hRead, hLast, hOnChange, hListening, hUnsub>>

\* the Kotlin NetSignalTurboModule with the thread that calls addListener /
\* removeListeners ("js") and the thread that destroys the instance ("destroy")
VARIABLES
  listenerCount,   \* AtomicInteger listenerCount
  networkCallback, \* the field: 0 for null, else the callback object
  registered,      \* the callback objects registered with the ConnectivityManager
  created,         \* callback objects created so far
  kPc,             \* where each thread is inside the module
  kTmp,            \* the local value each thread holds (old count, newCount, `it`)
  kCalls           \* addListener / removeListeners calls made so far

kotlinVars == <<listenerCount, networkCallback, registered, created, kPc, kTmp, kCalls>>

\* the JS NetSignalModule of the TurboModule variant
VARIABLES
  jmListeners,  \* NetSignalModule.listeners: the Set of listener functions
  jmRegs,       \* the addEventListener calls so far: [fn, calls] with the
                \* number of times the returned function was called
  jmEmitter,    \* subscriptions of the emitter to 'netSignalChange'
  jmAdds,       \* NativeNetSignal.addListener('netSignalChange') calls
  jmRemoves     \* NativeNetSignal.removeListeners(1) calls

jsModuleVars == <<jmListeners, jmRegs, jmEmitter, jmAdds, jmRemoves>>

\* the NetSignalClass singleton of index.tsx, its event emitter and one
\* waitForConnection call
VARIABLES
  isMonitoring,   \* NetSignalClass.isMonitoring
  forwarded,      \* the monitoring calls that reached the native module, in order
  monCalls,       \* startMonitoring / stopMonitoring calls made so far
  clock,          \* Date.now()
  clsListeners,   \* NetSignalClass.listeners: the set of <<listenerId, subscription>>
  clsRegs,        \* the addEventListener calls so far: [type, handler, at]; the
                  \* subscription of the i-th call is i
  emitterActive,  \* the subscriptions the eventEmitter still holds
  nativeConnected, \* what NetSignalModule.isConnected() returns
  wPc,            \* waitForConnection: "idle", "waiting" or "resolved"
  wResult,        \* what the promise resolved to
  wResolves,      \* resolve() calls made
  wTimer,         \* the setTimeout timer: "none", "armed", "cleared" or "fired"
  wSub            \* the subscription of the wait handler, 0 for none

classVars == <<isMonitoring, forwarded, monCalls, clock, clsListeners, clsRegs,
               emitterActive, nativeConnected, wPc, wResult, wResolves, wTimer, wSub>>

\* one component using useNetSignal(options) of hooks.ts
VARIABLES
  oPc,            \* "unmounted", "mounted" or "gone" (unmounted again)
  oOptions,       \* the options object the component passes
  oInit,          \* initializeNetSignal: "none", "configure", "getStatus", "done", "failed"
  oIsMonitoring,  \* the isMonitoring state of the hook
  oCaptured,      \* the isMonitoring the effect's cleanup closure holds
  oCalls          \* the monitoring calls made on NetSignal: [call, by]

optHookVars == <<oPc, oOptions, oInit, oIsMonitoring, oCaptured, oCalls>>

\* one component using useNetworkProbe(url, options) of types.ts
VARIABLES
  npPc,         \* "unmounted", "mounted" or "gone" (unmounted again)
  npInterval,   \* options.interval
  npStarted,    \* probes started so far: [by]; the i-th started probe is i
  npInFlight,   \* the started probes whose probeWithRetry has not settled
  npCompleted,  \* the started probes that settled while the component was mounted
  npIsLoading,  \* the isLoading state
  npResult      \* the probe whose outcome the result state holds, 0 for null

netProbeVars == <<npPc, npInterval, npStarted, npInFlight, npCompleted, npIsLoading,
                  npResult>>

\* the Android ConnectivityManager and one getSimpleSummary call on the
\* Kotlin NetSignalTurboModule
VARIABLES
  osActive,     \* cm.activeNetwork: [transport, internet], transport "none" for null
  osCount,      \* the networks of cm.allNetworks that have NET_CAPABILITY_INTERNET
  sPc,          \* getSimpleSummary: "idle", "type", "count", "multiple" or "done"
  sConnected,   \* map["connected"]
  sType,        \* map["type"]
  sCount,       \* map["connectionCount"]
  sMultiple     \* map["multipleConnections"]

summaryVars == <<osActive, osCount, sPc, sConnected, sType, sCount, sMultiple>>

\* calculateNetworkQuality of utils/network-quality
VARIABLES
  cqCall        \* the last calculateNetworkQuality call: [called, samples, result]

calcVars == <<cqCall>>

\* the variables outside the facades, outside the probe, ...
nonApiVars == <<probeVars, androidVars, qualityVars, retryVars, hookVars, kotlinVars,
                 jsModuleVars, classVars, optHookVars, netProbeVars, summaryVars,
                 calcVars>>
nonProbeVars == <<apiVars, androidVars, qualityVars, retryVars, hookVars, kotlinVars,
                   jsModuleVars, classVars, optHookVars, netProbeVars, summaryVars,
                   calcVars>>
nonAndroidVars == <<apiVars, probeVars, qualityVars, retryVars, hookVars, kotlinVars,
                     jsModuleVars, classVars, optHookVars, netProbeVars, summaryVars,
                     calcVars>>
nonQualityVars == <<apiVars, probeVars, androidVars, retryVars, hookVars, kotlinVars,
                     jsModuleVars, classVars, optHookVars, netProbeVars, summaryVars,
                     calcVars>>
nonRetryVars == <<apiVars, probeVars, androidVars, qualityVars, hookVars, kotlinVars,
                   jsModuleVars, classVars, optHookVars, netProbeVars, summaryVars,
                   calcVars>>
nonHookVars == <<apiVars, probeVars, androidVars, qualityVars, retryVars, kotlinVars,
                  jsModuleVars, classVars, optHookVars, netProbeVars, summaryVars,
                  calcVars>>
nonKotlinVars == <<apiVars, probeVars, androidVars, qualityVars, retryVars, hookVars,
                    jsModuleVars, classVars, optHookVars, netProbeVars, summaryVars,
                    calcVars>>
nonJsModuleVars == <<apiVars, probeVars, androidVars, qualityVars, retryVars, hookVars,
                      kotlinVars, classVars, optHookVars, netProbeVars, summaryVars,
                      calcVars>>
nonClassVars == <<apiVars, probeVars, androidVars, qualityVars, retryVars, hookVars,
                   kotlinVars, jsModuleVars, optHookVars, netProbeVars, summaryVars,
                   calcVars>>
nonOptHookVars == <<apiVars, probeVars, androidVars, qualityVars, retryVars, hookVars,
                     kotlinVars, jsModuleVars, classVars, netProbeVars, summaryVars,
                     calcVars>>
nonNetProbeVars == <<apiVars, probeVars, androidVars, qualityVars, retryVars, hookVars,
                      kotlinVars, jsModuleVars, classVars, optHookVars, summaryVars,
                      calcVars>>
nonSummaryVars == <<apiVars, probeVars, androidVars, qualityVars, retryVars, hookVars,
                     kotlinVars, jsModuleVars, classVars, optHookVars, netProbeVars,
                     calcVars>>
nonCalcVars == <<apiVars, probeVars, androidVars, qualityVars, retryVars, hookVars,
                  kotlinVars, jsModuleVars, classVars, optHookVars, netProbeVars,
                  summaryVars>>

vars == <<apiVars, probeVars, androidVars, qualityVars, retryVars, hookVars,
           kotlinVars, jsModuleVars, classVars, optHookVars, netProbeVars, summaryVars,
           calcVars>>

\* ------------------------------------------------------- pure computations

\* String.prototype.includes for a one-character needle
Includes(s, c) == \E i \in DOMAIN s : s[i] = c

\* updateState without the assignment of 'none' when offline
UpdateStateKeepsType(st, n, hc) ==
  IF ~n.onLine
    THEN [isConnected |-> n.onLine, type |-> st.type]
    ELSE IF hc /\ n.type # ""
      THEN [isConnected |-> n.onLine, type |-> n.type]
      ELSE IF hc /\ n.effectiveType # <<>>
        THEN [isConnected |-> n.onLine,
              type |-> IF Includes(n.effectiveType, "g") THEN "cellular" ELSE "wifi"]
        ELSE [isConnected |-> n.onLine, type |-> "unknown"]

\* WebNetSignal.updateState / NetSignalImpl.updateWebState: the new cached
\* pair computed from the navigator (conn is undefined when ~hc)
UpdateState(st, n, hc) ==
  IF ~n.onLine
    THEN [isConnected |-> n.onLine, type |-> "none"]
    ELSE IF hc /\ n.type # ""
      THEN [isConnected |-> n.onLine, type |-> n.type]
      ELSE IF hc /\ n.effectiveType # <<>>
        THEN [isConnected |-> n.onLine,
              type |-> IF Includes(n.effectiveType, "g") THEN "cellular" ELSE "wifi"]
        ELSE [isConnected |-> n.onLine, type |-> "unknown"]


\* Array.prototype.filter / removeEventListener on a listener list
RECURSIVE Without(_, _)
Without(ls, h) ==
  IF ls = <<>> THEN <<>>
  ELSE IF Head(ls) = h THEN Without(Tail(ls), h)
       ELSE <<Head(ls)>> \o Without(Tail(ls), h)

\* the closures the facades register as event listeners
GlobalHandler(impl, name) == [kind |-> "global", impl |-> impl, name |-> name, id |-> 0]
SubHandler(impl, id) == [kind |-> "sub", impl |-> impl, name |-> "handler", id |-> id]

\* One listener run by the browser's dispatch.  acc carries the two cached
\* pairs and the callbacks invoked so far.
\*   global handlers:   () => this.updateState()
\*   onChange handlers: () => { this.updateState(); callback({...this.state}) }
RunHandler(h, acc) ==
  LET cur == IF h.impl = "web" THEN acc.state ELSE acc.webState
      new == UpdateState(cur, nav, hasConn)
      upd == IF h.impl = "web"
               THEN [acc EXCEPT !.state = new]
               ELSE [acc EXCEPT !.webState = new]
  IN IF h.kind = "global"
       THEN upd
       ELSE [upd EXCEPT !.invoked = @ \cup {[id |-> h.id, status |-> new]}]

\* EventTarget.dispatchEvent: the listeners run in registration order
RECURSIVE RunListeners(_, _)
RunListeners(ls, acc) ==
  IF ls = <<>> THEN acc ELSE RunListeners(Tail(ls), RunHandler(Head(ls), acc))

\* the native module's cached pair for what the OS reports
\* (NetSignalModule.updateState)
NetKinds == {"null", "nointernet", "wifi", "cellular", "ethernet", "other"}
NativeUpdateState(caps) ==
  IF caps # "null" /\ caps # "nointernet"
    THEN [isConnected |-> TRUE,
          type |-> IF caps = "wifi" THEN "wifi"
                   ELSE IF caps = "cellular" THEN "cellular"
                   ELSE IF caps = "ethernet" THEN "ethernet"
                   ELSE "unknown"]
    ELSE [isConnected |-> FALSE, type |-> "none"]

\* the navigator values a browser can show
NavValues(hc) ==
  IF hc
    THEN {[onLine |-> o, type |-> c.type, effectiveType |-> c.effectiveType] :
            o \in BOOLEAN, c \in ConnValues}
    ELSE {[onLine |-> o, type |-> "", effectiveType |-> <<>>] : o \in BOOLEAN}

NoRet == [op |-> "none", impl |-> "none", bool |-> FALSE, str |-> ""]

\* ------------------------------------------------------------ construction
\* The facades after module load: `new WebNetSignal()` (constructor + initWeb)
\* and `new NetSignalImpl()` (constructor + initWeb) on web, `new
\* NativeNetSignal()` and `new NetSignalImpl()` elsewhere.
InitApi ==
  /\ platform \in {"web", "ios", "android"}
  /\ hasNative \in BOOLEAN
  /\ hasConn \in BOOLEAN
  /\ platform = "web" => ~hasNative       \* no NativeModules.NetSignal on web
  /\ platform # "web" => ~hasConn         \* no Network Information API off the web
  /\ nav \in NavValues(hasConn)
  /\ platform # "web" => nav.onLine
  /\ pending = <<>>
  /\ state = IF platform = "web"
               THEN UpdateState([isConnected |-> nav.onLine, type |-> "unknown"], nav, hasConn)
               ELSE [isConnected |-> nav.onLine, type |-> "unknown"]
  /\ webState = IF platform = "web"
                  THEN UpdateState([isConnected |-> nav.onLine, type |-> "unknown"], nav, hasConn)
                  ELSE [isConnected |-> nav.onLine, type |-> "unknown"]
  /\ \E caps \in NetKinds : nativeState = NativeUpdateState(caps)
  /\ ~hasNative => nativeState = NativeUpdateState("null")
  /\ winOnline = IF platform = "web"
                   THEN <<GlobalHandler("web", "onlineHandler"),
                          GlobalHandler("universal", "online")>>
                   ELSE <<>>
  /\ winOffline = IF platform = "web"
                    THEN <<GlobalHandler("web", "offlineHandler"),
                           GlobalHandler("universal", "offline")>>
                    ELSE <<>>
  /\ connChange = IF platform = "web" /\ hasConn
                    THEN <<GlobalHandler("web", "changeHandler"),
                           GlobalHandler("universal", "change")>>
                    ELSE <<>>
  /\ globalHandlers = IF platform # "web" THEN <<>>
                      ELSE IF hasConn THEN <<"window", "conn">> ELSE <<"window">>
  /\ emitterSubs = <<>>
  /\ listeners = [i \in Impls |-> {}]
  /\ subs = <<>>
  /\ invoked = {}
  /\ ret = NoRet
  /\ atEvent = nav

\* ---------------------------------------------------------- the environment

\* The browser changes what navigator reports and queues the event that
\* announces it: 'online' or 'offline' at window when onLine flips, 'change'
\* at navigator.connection when the connection information changes.
NavChange ==
  /\ platform = "web"
  /\ Len(pending) < MaxPending
  /\ \E n \in NavValues(hasConn) :
       /\ n # nav
       /\ nav' = n
       /\ \/ /\ n.onLine # nav.onLine
             /\ n.type = nav.type /\ n.effectiveType = nav.effectiveType
             /\ pending' = Append(pending, IF n.onLine THEN "online" ELSE "offline")
          \/ /\ n.onLine = nav.onLine
             /\ pending' = Append(pending, "change")
  /\ invoked' = {}
  /\ ret' = NoRet
  /\ UNCHANGED <<platform, hasNative, hasConn, state, webState, nativeState,
                 winOnline, winOffline, connChange, emitterSubs, globalHandlers,
                 listeners, subs, atEvent>>
  /\ UNCHANGED nonApiVars

\* the browser dispatches the oldest queued event to the listeners ls
Deliver(name, ls) ==
  LET acc == RunListeners(ls, [state |-> state, webState |-> webState,
                               invoked |-> {}])
  IN /\ pending # <<>>
     /\ Head(pending) = name
     /\ pending' = Tail(pending)
     /\ state' = acc.state
     /\ webState' = acc.webState
     /\ invoked' = acc.invoked
     /\ ret' = NoRet
     /\ atEvent' = nav
     /\ UNCHANGED <<platform, hasNative, hasConn, nav, nativeState,
                    winOnline, winOffline, connChange, emitterSubs,
                    globalHandlers, listeners, subs>>
     /\ UNCHANGED nonApiVars

\* window 'online'
FireOnline == platform = "web" /\ Deliver("online", winOnline)

\* window 'offline'
FireOffline == platform = "web" /\ Deliver("offline", winOffline)

\* navigator.connection 'change'
FireChange == platform = "web" /\ hasConn /\ Deliver("change", connChange)

\* an OS network callback of the native module: refresh the cached pair and
\* emit 'connectionChange' with it; the NativeEventEmitter hands the payload
\* to every subscribed callback
OsCallback ==
  /\ hasNative
  /\ \E caps \in NetKinds :
       /\ nativeState' = NativeUpdateState(caps)
       /\ invoked' = {[id |-> emitterSubs[i], status |-> NativeUpdateState(caps)] :
                        i \in DOMAIN emitterSubs}
  /\ ret' = NoRet
  /\ UNCHANGED <<platform, hasNative, hasConn, nav, pending, state, webState,
                 winOnline, winOffline, connChange, emitterSubs, globalHandlers,
                 listeners, subs, atEvent>>
  /\ UNCHANGED nonApiVars

\* ------------------------------------------------------------- the facades

\* which facades are instantiated: the web entry point builds a WebNetSignal,
\* the native entry point a NativeNetSignal, the universal one a NetSignalImpl
Exists(impl) ==
  /\ impl = "web" => platform = "web"
  /\ impl = "native" => platform # "web"

\* isConnected() written with `?? true`
IsConnectedOfDefaultTrue(impl) ==
  IF impl = "web" THEN state.isConnected
  ELSE IF impl = "universal" /\ platform = "web" THEN webState.isConnected
  ELSE IF hasNative THEN nativeState.isConnected ELSE TRUE

\* isConnected() of each facade
\*   WebNetSignal:    this.state.isConnected
\*   NativeNetSignal: this.native?.isConnected() ?? false
\*   NetSignalImpl:   webState.isConnected on web, else as NativeNetSignal
IsConnectedOf(impl) ==
  IF impl = "web" THEN state.isConnected
  ELSE IF impl = "universal" /\ platform = "web" THEN webState.isConnected
  ELSE IF hasNative THEN nativeState.isConnected ELSE FALSE

\* getType() of each facade
\*   WebNetSignal:    this.state.type
\*   NativeNetSignal: this.native?.getConnectionType() ?? 'unknown'
\*   NetSignalImpl:   webState.type on web, else as NativeNetSignal
GetTypeOf(impl) ==
  IF impl = "web" THEN state.type
  ELSE IF impl = "universal" /\ platform = "web" THEN webState.type
  ELSE IF hasNative THEN nativeState.type ELSE "unknown"

\* what onChange does for a facade: register the handler on window, subscribe
\* to the emitter, or return the no-op
OnChangeKind(impl) ==
  IF impl = "web" THEN "window"
  ELSE IF impl = "universal" /\ platform = "web" THEN "window"
  ELSE IF hasNative THEN "emitter" ELSE "noop"

IsConnected(impl) ==
  /\ Exists(impl)
  /\ ret' = [NoRet EXCEPT !.op = "isConnected", !.impl = impl,
                          !.bool = IsConnectedOf(impl)]
  /\ invoked' = {}
  /\ UNCHANGED <<platform, hasNative, hasConn, nav, pending, state, webState, nativeState,
                 winOnline, winOffline, connChange, emitterSubs, globalHandlers,
                 listeners, subs, atEvent>>
  /\ UNCHANGED nonApiVars

GetType(impl) ==
  /\ Exists(impl)
  /\ ret' = [NoRet EXCEPT !.op = "getType", !.impl = impl,
                          !.str = GetTypeOf(impl)]
  /\ invoked' = {}
  /\ UNCHANGED <<platform, hasNative, hasConn, nav, pending, state, webState, nativeState,
                 winOnline, winOffline, connChange, emitterSubs, globalHandlers,
                 listeners, subs, atEvent>>
  /\ UNCHANGED nonApiVars

\* onChange(callback): the subscription gets the next id; the callback is
\* not invoked by the call itself
OnChange(impl) ==
  /\ Exists(impl)
  /\ Len(subs) < MaxSubs
  /\ LET id == Len(subs) + 1
         kind == OnChangeKind(impl)
     IN /\ subs' = Append(subs, [impl |-> impl, kind |-> kind, unsubscribed |-> FALSE])
        /\ winOnline' = IF kind = "window"
                          THEN Append(winOnline, SubHandler(impl, id)) ELSE winOnline
        /\ winOffline' = IF kind = "window"
                           THEN Append(winOffline, SubHandler(impl, id)) ELSE winOffline
        /\ emitterSubs' = IF kind = "emitter" THEN Append(emitterSubs, id) ELSE emitterSubs
        /\ listeners' = IF kind = "noop" THEN listeners
                        ELSE [listeners EXCEPT ![impl] = @ \cup {id}]
  /\ invoked' = {}
  /\ ret' = NoRet
  /\ UNCHANGED <<platform, hasNative, hasConn, nav, pending, state, webState, nativeState,
                 connChange, globalHandlers, atEvent>>
  /\ UNCHANGED nonApiVars

\* an unsubscribe function that forgets the 'offline' listener
UnsubscribeOnlineOnly(id) ==
  /\ id \in DOMAIN subs
  /\ LET sub == subs[id]
     IN /\ winOnline' = IF sub.kind = "window"
                          THEN Without(winOnline, SubHandler(sub.impl, id)) ELSE winOnline
        /\ winOffline' = winOffline
        /\ emitterSubs' = IF sub.kind = "emitter"
                            THEN Without(emitterSubs, id) ELSE emitterSubs
        /\ listeners' = IF sub.kind = "noop" THEN listeners
                        ELSE [listeners EXCEPT ![sub.impl] = @ \ {id}]
        /\ subs' = [subs EXCEPT ![id].unsubscribed = TRUE]
  /\ invoked' = {}
  /\ ret' = NoRet
  /\ UNCHANGED <<platform, hasNative, hasConn, nav, pending, state, webState, nativeState,
                 connChange, globalHandlers, atEvent>>
  /\ UNCHANGED nonApiVars

\* the function onChange returned, for subscription id
Unsubscribe(id) ==
  /\ id \in DOMAIN subs
  /\ LET sub == subs[id]
     IN /\ winOnline' = IF sub.kind = "window"
                          THEN Without(winOnline, SubHandler(sub.impl, id)) ELSE winOnline
        /\ winOffline' = IF sub.kind = "window"
                           THEN Without(winOffline, SubHandler(sub.impl, id)) ELSE winOffline
        /\ emitterSubs' = IF sub.kind = "emitter"
                            THEN Without(emitterSubs, id) ELSE emitterSubs
        /\ listeners' = IF sub.kind = "noop" THEN listeners
                        ELSE [listeners EXCEPT ![sub.impl] = @ \ {id}]
        /\ subs' = [subs EXCEPT ![id].unsubscribed = TRUE]
  /\ invoked' = {}
  /\ ret' = NoRet
  /\ UNCHANGED <<platform, hasNative, hasConn, nav, pending, state, webState, nativeState,
                 connChange, globalHandlers, atEvent>>
  /\ UNCHANGED nonApiVars

\* what one cleanup thunk of WebNetSignal.globalHandlers removes
RemovedBy(thunk) ==
  IF thunk = "window"
    THEN {GlobalHandler("web", "onlineHandler"), GlobalHandler("web", "offlineHandler")}
    ELSE {GlobalHandler("web", "changeHandler")}

RECURSIVE WithoutAll(_, _)
WithoutAll(ls, thunks) ==
  IF thunks = <<>> THEN ls
  ELSE WithoutAll(SelectSeq(ls, LAMBDA h : h \notin RemovedBy(Head(thunks))), Tail(thunks))

\* WebNetSignal.cleanup()
Cleanup ==
  /\ platform = "web"
  /\ winOnline' = WithoutAll(winOnline, globalHandlers)
  /\ winOffline' = WithoutAll(winOffline, globalHandlers)
  /\ connChange' = WithoutAll(connChange, globalHandlers)
  /\ globalHandlers' = <<>>
  /\ listeners' = [listeners EXCEPT !["web"] = {}]
  /\ invoked' = {}
  /\ ret' = NoRet
  /\ UNCHANGED <<platform, hasNative, hasConn, nav, pending, state, webState, nativeState,
                 emitterSubs, subs, atEvent>>
  /\ UNCHANGED nonApiVars

Next ==
  \/ NavChange
  \/ FireOnline
  \/ FireOffline
  \/ FireChange
  \/ OsCallback
  \/ \E impl \in Impls : IsConnected(impl)
  \/ \E impl \in Impls : GetType(impl)
  \/ \E impl \in Impls : OnChange(impl)
  \/ \E id \in 1..(MaxSubs + 1) : Unsubscribe(id)
  \/ Cleanup

\* ================================================================== probe

\* JS numbers: an integer or NaN
Num(v) == [nan |-> FALSE, v |-> v]
NaN == [nan |-> TRUE, v |-> 0]
\* a <= b and a > b of JS: every comparison with NaN is false
JsLeq(a, b) == ~a.nan /\ ~b.nan /\ a.v <= b.v
JsGt(a, b) == ~a.nan /\ ~b.nan /\ a.v > b.v

\* TIMEOUTS.probeMax of constants.ts, the literal 60000 of both probes
ProbeMax == 60000

UrlInputs == {"https://example.com", "http://example.com", "ftp://example.com",
              "not a url"}
TimeoutInputs == {Num(0 - 1), Num(0), Num(1), Num(5000), Num(ProbeMax),
                  Num(ProbeMax + 1), NaN}
Elapsed == {0, 120}

\* new URL(url): whether it parses, and its protocol
ParseURL(u) ==
  IF u = "https://example.com" THEN [ok |-> TRUE, protocol |-> "https:"]
  ELSE IF u = "http://example.com" THEN [ok |-> TRUE, protocol |-> "http:"]
  ELSE IF u = "ftp://example.com" THEN [ok |-> TRUE, protocol |-> "ftp:"]
  ELSE [ok |-> FALSE, protocol |-> ""]

\* the URL validation of both probes: "ok", "protocol" or "format"
ValidateURL(u) ==
  IF ~ParseURL(u).ok THEN "format"
  ELSE IF ParseURL(u).protocol \notin {"http:", "https:"} THEN "protocol"
  ELSE "ok"

\* the timeout validation of both probes: timeoutMs <= 0 || timeoutMs > 60000
TimeoutRejected(t) == JsLeq(t, Num(0)) \/ JsGt(t, Num(ProbeMax))

NoError == "(none)"
NoOutcome == [kind |-> "none", reachable |-> FALSE, responseTime |-> 0,
              error |-> NoError]
Resolved(reachable, responseTime, error) ==
  [kind |-> "resolved", reachable |-> reachable, responseTime |-> responseTime,
   error |-> error]
\* a rejection with one of the error classes of errors.ts
Rejected(name) ==
  [kind |-> "rejected", reachable |-> FALSE, responseTime |-> 0, error |-> name]

\* what fetch rejects with
AbortError == [name |-> "AbortError", message |-> "The operation was aborted."]
NetworkError == [name |-> "TypeError", message |-> "Failed to fetch"]

\* a catch block that reports the time spent instead of -1
CatchResultElapsed(impl, err) ==
  IF impl = "web"
    THEN Resolved(FALSE, 120,
                  IF err.name = "AbortError" THEN "Request timeout" ELSE err.message)
    ELSE Resolved(FALSE, 120, err.message)

\* the catch block of WebNetSignal.probe and of NetSignalImpl.probeWeb
CatchResult(impl, err) ==
  IF impl = "web"
    THEN Resolved(FALSE, 0 - 1,
                  IF err.name = "AbortError" THEN "Request timeout" ELSE err.message)
    ELSE Resolved(FALSE, 0 - 1, err.message)

NoCall == [impl |-> "none", url |-> "", timeoutMs |-> Num(0)]

InitProbe ==
  /\ pc = "idle"
  /\ call = NoCall
  /\ fetchP = "none"
  /\ net = "idle"
  /\ timer = "none"
  /\ nativeP = "none"
  /\ outcome = NoOutcome
  /\ requests = 0
  /\ settles = 0
  /\ first = "none"
  /\ probes = 0

\* a probe() call may start once the previous one has left nothing behind
CanCall ==
  /\ pc \in {"idle", "done"}
  /\ timer # "armed"
  /\ net = "idle"
  /\ probes < MaxProbes

\* probe() returned without reaching the await
Returns(c, o) ==
  /\ pc' = "done"
  /\ call' = c
  /\ fetchP' = "none"
  /\ net' = "idle"
  /\ timer' = "none"
  /\ nativeP' = "none"
  /\ outcome' = o
  /\ requests' = 0
  /\ settles' = 1
  /\ first' = "none"
  /\ probes' = probes + 1

\* setTimeout(() => controller.abort(), timeoutMs); await fetch(url, ...)
AwaitsFetch(c) ==
  /\ pc' = "await"
  /\ call' = c
  /\ fetchP' = "pending"
  /\ net' = "inflight"
  /\ timer' = "armed"
  /\ nativeP' = "none"
  /\ outcome' = NoOutcome
  /\ requests' = 1
  /\ settles' = 0
  /\ first' = "none"
  /\ probes' = probes + 1

\* await this.native.probe(url, timeoutMs)
AwaitsNative(c) ==
  /\ pc' = "await"
  /\ call' = c
  /\ fetchP' = "none"
  /\ net' = "idle"
  /\ timer' = "none"
  /\ nativeP' = "pending"
  /\ outcome' = NoOutcome
  /\ requests' = 1
  /\ settles' = 0
  /\ first' = "none"
  /\ probes' = probes + 1

\* the early returns of WebNetSignal.probe: the result it returns for an
\* input it rejects, NoOutcome for an input it lets through
WebValidation(url, t) ==
  IF ValidateURL(url) = "protocol"
    THEN Resolved(FALSE, 0 - 1, "Invalid protocol. Only HTTP/HTTPS are supported")
  ELSE IF ValidateURL(url) = "format"
    THEN Resolved(FALSE, 0 - 1, "Invalid URL format")
  ELSE IF TimeoutRejected(t)
    THEN Resolved(FALSE, 0 - 1, "Timeout must be between 1ms and 60000ms")
  ELSE NoOutcome

\* WebNetSignal.probe(url, timeoutMs), up to its await
WebNetSignal_probe(url, t) ==
  /\ CanCall
  /\ platform = "web"
  /\ LET c == [impl |-> "web", url |-> url, timeoutMs |-> t]
     IN IF WebValidation(url, t) # NoOutcome
          THEN Returns(c, WebValidation(url, t))
          ELSE AwaitsFetch(c)
  /\ UNCHANGED nonProbeVars

\* NativeNetSignal.probe(url, timeoutMs), up to its await
NativeNetSignal_probe(url, t) ==
  /\ CanCall
  /\ platform # "web"
  /\ LET c == [impl |-> "native", url |-> url, timeoutMs |-> t]
     IN IF ~hasNative
          THEN Returns(c, Rejected("NativeModuleError"))
        ELSE IF ValidateURL(url) # "ok"
          THEN Returns(c, Rejected("InvalidURLError"))
        ELSE IF TimeoutRejected(t)
          THEN Returns(c, Rejected("InvalidTimeoutError"))
        ELSE AwaitsNative(c)
  /\ UNCHANGED nonProbeVars

\* NetSignalImpl.probe(url, timeoutMs) with probeWeb, up to its await
NetSignalImpl_probe(url, t) ==
  /\ CanCall
  /\ LET c == [impl |-> "universal", url |-> url, timeoutMs |-> t]
     IN IF platform = "web"
          THEN AwaitsFetch(c)
        ELSE IF ~hasNative
          THEN Returns(c, Resolved(FALSE, 0 - 1, "Not supported"))
        ELSE AwaitsNative(c)
  /\ UNCHANGED nonProbeVars

\* the fetch promise fulfils with a response: the continuation clears the
\* timer and returns {reachable: response.ok, responseTime: Date.now() - start}
FetchResolves ==
  /\ pc = "await"
  /\ fetchP = "pending"
  /\ \E ok \in BOOLEAN, ms \in Elapsed : outcome' = Resolved(ok, ms, NoError)
  /\ fetchP' = "fulfilled"
  /\ net' = "idle"
  /\ timer' = "cleared"
  /\ pc' = "done"
  /\ settles' = settles + 1
  /\ first' = "fetch"
  /\ UNCHANGED <<call, nativeP, requests, probes>>
  /\ UNCHANGED nonProbeVars

\* a catch block that fetches once more before it gives up
FetchRejectsRetry ==
  /\ pc = "await"
  /\ fetchP = "pending"
  /\ IF requests < 2
       THEN /\ requests' = requests + 1
            /\ UNCHANGED <<outcome, fetchP, net, pc, settles, first>>
       ELSE /\ outcome' = CatchResult(call.impl, NetworkError)
            /\ fetchP' = "rejected"
            /\ net' = "idle"
            /\ pc' = "done"
            /\ settles' = settles + 1
            /\ first' = "fetch"
            /\ UNCHANGED requests
  /\ UNCHANGED <<call, timer, nativeP, probes>>
  /\ UNCHANGED nonProbeVars

\* the fetch promise rejects with a network error: the catch block returns the
\* error result; clearTimeout is skipped, the timer stays armed
FetchRejects ==
  /\ pc = "await"
  /\ fetchP = "pending"
  /\ outcome' = CatchResult(call.impl, NetworkError)
  /\ fetchP' = "rejected"
  /\ net' = "idle"
  /\ pc' = "done"
  /\ settles' = settles + 1
  /\ first' = "fetch"
  /\ UNCHANGED <<call, timer, nativeP, requests, probes>>
  /\ UNCHANGED nonProbeVars

\* a timer callback that reports the timeout itself, whatever fetch did
TimerFiresOverwrites ==
  /\ timer = "armed"
  /\ timer' = "fired"
  /\ outcome' = CatchResult(call.impl, AbortError)
  /\ pc' = "done"
  /\ IF fetchP = "pending"
       THEN /\ fetchP' = "aborted"
            /\ settles' = settles + 1
            /\ first' = "timer"
       ELSE UNCHANGED <<fetchP, settles, first>>
  /\ UNCHANGED <<call, net, nativeP, requests, probes>>
  /\ UNCHANGED nonProbeVars

\* a timer callback that does not abort the request
TimerFiresNoAbort ==
  /\ timer = "armed"
  /\ timer' = "fired"
  /\ UNCHANGED <<fetchP, outcome, pc, settles, first>>
  /\ UNCHANGED <<call, net, nativeP, requests, probes>>
  /\ UNCHANGED nonProbeVars

\* the timer fires: controller.abort().  A pending fetch rejects with
\* AbortError and the catch block returns; a settled fetch ignores the abort.
TimerFires ==
  /\ timer = "armed"
  /\ timer' = "fired"
  /\ IF fetchP = "pending"
       THEN /\ fetchP' = "aborted"
            /\ outcome' = CatchResult(call.impl, AbortError)
            /\ pc' = "done"
            /\ settles' = settles + 1
            /\ first' = "timer"
       ELSE UNCHANGED <<fetchP, outcome, pc, settles, first>>
  /\ UNCHANGED <<call, net, nativeP, requests, probes>>
  /\ UNCHANGED nonProbeVars

\* the response of an aborted fetch arrives: nobody is waiting for it
LateResponse ==
  /\ net = "inflight"
  /\ fetchP = "aborted"
  /\ net' = "idle"
  /\ UNCHANGED <<pc, call, fetchP, timer, nativeP, outcome, requests, settles,
                 first, probes>>
  /\ UNCHANGED nonProbeVars

\* what native.probe resolves with (NetSignalModule.probe, NetSignal.mm probe)
NativeResults ==
  {Resolved(TRUE, 120, NoError), Resolved(FALSE, 120, NoError),
   Resolved(FALSE, 0 - 1, "Host unreachable")}

\* native.probe resolves: both facades return the result as it is
NativeResolves ==
  /\ pc = "await"
  /\ nativeP = "pending"
  /\ \E r \in NativeResults : outcome' = r
  /\ nativeP' = "settled"
  /\ pc' = "done"
  /\ settles' = settles + 1
  /\ UNCHANGED <<call, fetchP, net, timer, requests, first, probes>>
  /\ UNCHANGED nonProbeVars

\* native.probe rejects: NativeNetSignal throws NetworkRequestError,
\* NetSignalImpl returns the error result
NativeRejects ==
  /\ pc = "await"
  /\ nativeP = "pending"
  /\ outcome' = IF call.impl = "native"
                  THEN Rejected("NetworkRequestError")
                  ELSE Resolved(FALSE, 0 - 1, "Native error")
  /\ nativeP' = "settled"
  /\ pc' = "done"
  /\ settles' = settles + 1
  /\ UNCHANGED <<call, fetchP, net, timer, requests, first, probes>>
  /\ UNCHANGED nonProbeVars

NextProbe ==
  \/ \E url \in UrlInputs, t \in TimeoutInputs : WebNetSignal_probe(url, t)
  \/ \E url \in UrlInputs, t \in TimeoutInputs : NativeNetSignal_probe(url, t)
  \/ \E url \in UrlInputs, t \in TimeoutInputs : NetSignalImpl_probe(url, t)
  \/ FetchResolves
  \/ FetchRejects
  \/ TimerFires
  \/ LateResponse
  \/ NativeResolves
  \/ NativeRejects

\* ================================================ Android NetSignalModule

InitAndroid ==
  /\ aPc = "new"
  /\ activeCaps = "null"
  /\ connected = FALSE          \* field initialisers
  /\ type = "none"
  /\ cbQueue = <<>>
  /\ capsRead = "null"
  /\ posted = 0
  /\ ran = <<>>
  /\ emitted = <<>>
  /\ pairs = {}
  /\ rPc = "idle"
  /\ rConnected = FALSE
  /\ rType = "none"

\* new NetSignalModule(context): updateState(); registerCallback().  The
\* module is handed to the JS thread only after the constructor returned.
NetSignalModule_new ==
  /\ platform = "android" /\ hasNative
  /\ aPc = "new"
  /\ \E c \in NetKinds :
       /\ activeCaps' = c
       /\ capsRead' = c
       /\ connected' = NativeUpdateState(c).isConnected
       /\ type' = NativeUpdateState(c).type
       /\ pairs' = {NativeUpdateState(c)}
  /\ aPc' = "idle"
  /\ UNCHANGED <<cbQueue, posted, ran, emitted, rPc, rConnected, rType>>
  /\ UNCHANGED nonAndroidVars

\* which NetworkCallback method the OS posts for a change of the network
CallbackFor(old, new) ==
  IF new = "null" THEN "onLost"
  ELSE IF old = "null" THEN "onAvailable"
  ELSE "onCapabilitiesChanged"

\* the OS changes the active network and posts the callback to the
\* callback thread
OsNetworkChange ==
  /\ aPc # "new"
  /\ posted < MaxCallbacks
  /\ \E c \in NetKinds \ {activeCaps} :
       /\ activeCaps' = c
       /\ cbQueue' = Append(cbQueue, CallbackFor(activeCaps, c))
  /\ posted' = posted + 1
  /\ UNCHANGED <<aPc, connected, type, capsRead, ran, emitted, pairs, rPc, rConnected, rType>>
  /\ UNCHANGED nonAndroidVars

\* the callback thread takes the next callback; updateState() reads the
\* capabilities and writes `connected`
UpdateStateWritesConnected ==
  /\ aPc = "idle"
  /\ cbQueue # <<>>
  /\ cbQueue' = Tail(cbQueue)
  /\ capsRead' = activeCaps
  /\ connected' = NativeUpdateState(activeCaps).isConnected
  /\ aPc' = "writing"
  /\ UNCHANGED <<activeCaps, type, posted, ran, emitted, pairs, rPc, rConnected, rType>>
  /\ UNCHANGED nonAndroidVars

\* updateState() writes `type` and returns
UpdateStateWritesType ==
  /\ aPc = "writing"
  /\ type' = NativeUpdateState(capsRead).type
  /\ ran' = Append(ran, NativeUpdateState(capsRead))
  /\ pairs' = pairs \cup {NativeUpdateState(capsRead)}
  /\ aPc' = "updated"
  /\ UNCHANGED <<activeCaps, connected, cbQueue, capsRead, posted, emitted, rPc, rConnected, rType>>
  /\ UNCHANGED nonAndroidVars

\* an emit() that hands the event to the emitter twice
EmitTwice ==
  /\ aPc = "updated"
  /\ emitted' = emitted \o <<[isConnected |-> connected, type |-> type],
                             [isConnected |-> connected, type |-> type]>>
  /\ aPc' = "idle"
  /\ UNCHANGED <<activeCaps, connected, type, cbQueue, capsRead, posted, ran, pairs, rPc,
                 rConnected, rType>>
  /\ UNCHANGED nonAndroidVars

\* emit(): the payload is read from the two fields and handed to
\* RCTDeviceEventEmitter.emit("connectionChange", params)
Emit ==
  /\ aPc = "updated"
  /\ emitted' = Append(emitted, [isConnected |-> connected, type |-> type])
  /\ aPc' = "idle"
  /\ UNCHANGED <<activeCaps, connected, type, cbQueue, capsRead, posted, ran, pairs, rPc,
                 rConnected, rType>>
  /\ UNCHANGED nonAndroidVars

\* the JS thread calls isConnected()
JsIsConnected ==
  /\ aPc # "new"
  /\ rPc \in {"idle", "done"}
  /\ rConnected' = connected
  /\ rPc' = "mid"
  /\ UNCHANGED <<aPc, activeCaps, connected, type, cbQueue, capsRead, posted, ran, emitted,
                 pairs, rType>>
  /\ UNCHANGED nonAndroidVars

\* the JS thread calls getConnectionType()
JsGetConnectionType ==
  /\ rPc = "mid"
  /\ rType' = type
  /\ rPc' = "done"
  /\ UNCHANGED <<aPc, activeCaps, connected, type, cbQueue, capsRead, posted, ran, emitted,
                 pairs, rConnected>>
  /\ UNCHANGED nonAndroidVars

NextAndroid ==
  \/ NetSignalModule_new
  \/ OsNetworkChange
  \/ UpdateStateWritesConnected
  \/ UpdateStateWritesType
  \/ Emit
  \/ JsIsConnected
  \/ JsGetConnectionType

\* ================================================== utils/network-quality

\* a JS number that is a ratio of integers, den >= 1
Ratio(num, den) == [num |-> num, den |-> den]
RatioLt(r, k) == r.num < k * r.den

\* QUALITY_THRESHOLDS with the bounds of two buckets exchanged
QUALITY_THRESHOLDS_Swapped == [excellent |-> 150, good |-> 50, fair |-> 300]

\* QUALITY_THRESHOLDS
QUALITY_THRESHOLDS == [excellent |-> 50, good |-> 150, fair |-> 300]

NetworkQuality == {"excellent", "good", "fair", "poor", "unknown"}

\* getQualityFromLatency(latency)
GetQualityFromLatency(latency) ==
  IF RatioLt(latency, 0) THEN "unknown"
  ELSE IF RatioLt(latency, QUALITY_THRESHOLDS.excellent) THEN "excellent"
  ELSE IF RatioLt(latency, QUALITY_THRESHOLDS.good) THEN "good"
  ELSE IF RatioLt(latency, QUALITY_THRESHOLDS.fair) THEN "fair"
  ELSE "poor"

LatencyInputs == (0 - 2)..MaxLatency

InitQuality ==
  qCall = [called |-> FALSE, latency |-> 0, quality |-> "unknown"]

\* a caller evaluates getQualityFromLatency(L)
GetQualityFromLatencyCall(L) ==
  /\ qCall' = [called |-> TRUE, latency |-> L,
               quality |-> GetQualityFromLatency(Ratio(L, 1))]
  /\ UNCHANGED nonQualityVars

NextQuality == \E L \in LatencyInputs : GetQualityFromLatencyCall(L)

\* ---------------------------------------------------------- probeWithRetry

\* what one attempt's probe() resolves to
AttemptResults ==
  {Resolved(TRUE, 40, NoError), Resolved(TRUE, 100, NoError),
   Resolved(TRUE, 320, NoError),
   Resolved(FALSE, 0 - 1, "Network error"), Resolved(FALSE, 0 - 1, "Request timeout")}

RECURSIVE SumOf(_)
SumOf(rs) == IF rs = <<>> THEN 0 ELSE Head(rs).responseTime + SumOf(Tail(rs))

RECURSIVE MinOf(_)
MinOf(rs) ==
  IF Len(rs) = 1 THEN Head(rs).responseTime
  ELSE LET m == MinOf(Tail(rs))
       IN IF Head(rs).responseTime < m THEN Head(rs).responseTime ELSE m

RECURSIVE MaxOf(_)
MaxOf(rs) ==
  IF Len(rs) = 1 THEN Head(rs).responseTime
  ELSE LET m == MaxOf(Tail(rs))
       IN IF Head(rs).responseTime > m THEN Head(rs).responseTime ELSE m

NoRatio == Ratio(0 - 1, 1)
NoExtended ==
  [reachable |-> FALSE, responseTime |-> NoRatio, error |-> NoError, attempts |-> 0,
   averageResponseTime |-> NoRatio, minResponseTime |-> 0 - 1,
   maxResponseTime |-> 0 - 1, quality |-> "unknown"]

\* an aggregation that averages over all attempts, failed ones included
AggregateAllAttempts(rs) ==
  LET ok == SelectSeq(rs, LAMBDA r : r.reachable)
      avg == Ratio(SumOf(rs), Len(rs))
  IN IF ok = <<>>
       THEN [NoExtended EXCEPT !.error = rs[Len(rs)].error, !.attempts = Len(rs)]
       ELSE [reachable |-> TRUE, responseTime |-> avg, error |-> NoError,
             attempts |-> Len(rs), averageResponseTime |-> avg,
             minResponseTime |-> MinOf(rs), maxResponseTime |-> MaxOf(rs),
             quality |-> GetQualityFromLatency(avg)]

\* the ExtendedProbeResult probeWithRetry builds from the attempts
Aggregate(rs) ==
  LET ok == SelectSeq(rs, LAMBDA r : r.reachable)
      failed == SelectSeq(rs, LAMBDA r : ~r.reachable)
      avg == Ratio(SumOf(ok), Len(ok))
  IN IF ok = <<>>
       THEN [NoExtended EXCEPT !.error = failed[Len(failed)].error,
                               !.attempts = Len(rs)]
       ELSE [reachable |-> TRUE, responseTime |-> avg, error |-> NoError,
             attempts |-> Len(rs), averageResponseTime |-> avg,
             minResponseTime |-> MinOf(ok), maxResponseTime |-> MaxOf(ok),
             quality |-> GetQualityFromLatency(avg)]

InitRetry ==
  /\ rwPc = "idle"
  /\ rwRetries = 0
  /\ rwCalls = 0
  /\ rwResults = <<>>
  /\ rwResult = NoExtended

\* probeWithRetry(probe, url, {retries: n, retryDelay}): the first attempt
\* invokes probe
ProbeWithRetry(n) ==
  /\ rwPc \in {"idle", "done"}
  /\ rwPc' = "probing"
  /\ rwRetries' = n
  /\ rwCalls' = 1
  /\ rwResults' = <<>>
  /\ rwResult' = NoExtended
  /\ UNCHANGED nonRetryVars

\* a loop that stops at the first reachable attempt
AttemptSettlesStopsEarly(r) ==
  /\ rwPc = "probing"
  /\ rwResults' = Append(rwResults, r)
  /\ IF rwCalls = rwRetries + 1 \/ r.reachable
       THEN /\ rwPc' = "done"
            /\ rwResult' = Aggregate(Append(rwResults, r))
       ELSE /\ rwPc' = "delay"
            /\ UNCHANGED rwResult
  /\ UNCHANGED <<rwRetries, rwCalls>>
  /\ UNCHANGED nonRetryVars

\* the attempt's probe() settles with r: after the last attempt the call
\* resolves to the aggregate, otherwise it waits retryDelay
AttemptSettles(r) ==
  /\ rwPc = "probing"
  /\ rwResults' = Append(rwResults, r)
  /\ IF rwCalls = rwRetries + 1
       THEN /\ rwPc' = "done"
            /\ rwResult' = Aggregate(Append(rwResults, r))
       ELSE /\ rwPc' = "delay"
            /\ UNCHANGED rwResult
  /\ UNCHANGED <<rwRetries, rwCalls>>
  /\ UNCHANGED nonRetryVars

\* the retry delay elapsed: the next attempt invokes probe
DelayElapses ==
  /\ rwPc = "delay"
  /\ rwPc' = "probing"
  /\ rwCalls' = rwCalls + 1
  /\ UNCHANGED <<rwRetries, rwResults, rwResult>>
  /\ UNCHANGED nonRetryVars

NextRetry ==
  \/ \E n \in 0..MaxRetries : ProbeWithRetry(n)
  \/ \E r \in AttemptResults : AttemptSettles(r)
  \/ DelayElapses

\* ============================================================ useNetSignal

\* the NetworkStatus values NetSignal reports and emits
Statuses ==
  {[isConnected |-> TRUE, type |-> "wifi"], [isConnected |-> TRUE, type |-> "cellular"],
   [isConnected |-> FALSE, type |-> "none"]}

InitHook ==
  /\ hPc = "unmounted"
  /\ hNet = [isConnected |-> TRUE, type |-> "wifi"]
  /\ hStatus = [isConnected |-> TRUE, type |-> "wifi"]
  /\ hUpdates = <<>>
  /\ hRead = [isConnected |-> TRUE, type |-> "wifi"]
  /\ hLast = [seen |-> FALSE, status |-> [isConnected |-> TRUE, type |-> "wifi"]]
  /\ hOnChange = 0
  /\ hListening = FALSE
  /\ hUnsub = 0

\* the network status changes: NetSignal's getters return p from now on
HookNetChanges(p) ==
  /\ p # hNet
  /\ hNet' = p
  /\ UNCHANGED <<hPc, hStatus, hUpdates, hRead, hLast, hOnChange, hListening, hUnsub>>
  /\ UNCHANGED nonHookVars

\* first render: useState's initialiser reads NetSignal
UseNetSignal_mount ==
  /\ hPc = "unmounted"
  /\ hPc' = "rendered"
  /\ hStatus' = hNet
  /\ hRead' = hNet
  /\ UNCHANGED <<hNet, hUpdates, hLast, hOnChange, hListening, hUnsub>>
  /\ UNCHANGED nonHookVars

\* the effect: setStatus({isConnected(), getType()}), then NetSignal.onChange
UseNetSignal_effect ==
  /\ hPc = "rendered"
  /\ hPc' = "mounted"
  /\ hUpdates' = Append(hUpdates, hNet)
  /\ hRead' = hNet
  /\ hOnChange' = hOnChange + 1
  /\ hListening' = TRUE
  /\ UNCHANGED <<hNet, hStatus, hLast, hUnsub>>
  /\ UNCHANGED nonHookVars

\* a callback that drops the event while an update is waiting for its render
UseNetSignal_callbackDrops(p) ==
  /\ hListening
  /\ Len(hUpdates) < MaxUpdates
  /\ hUpdates' = IF hUpdates = <<>> THEN <<p>> ELSE hUpdates
  /\ hLast' = [seen |-> TRUE, status |-> p]
  /\ UNCHANGED <<hPc, hNet, hStatus, hRead, hOnChange, hListening, hUnsub>>
  /\ UNCHANGED nonHookVars

\* NetSignal hands an event to the callback: setStatus(newStatus)
UseNetSignal_callback(p) ==
  /\ hListening
  /\ Len(hUpdates) < MaxUpdates
  /\ hUpdates' = Append(hUpdates, p)
  /\ hLast' = [seen |-> TRUE, status |-> p]
  /\ UNCHANGED <<hPc, hNet, hStatus, hRead, hOnChange, hListening, hUnsub>>
  /\ UNCHANGED nonHookVars

\* a render whose effect has no dependency list: the effect runs again at
\* every render, cleaning up and subscribing anew
UseNetSignal_renderResubscribes ==
  /\ hPc = "mounted"
  /\ hOnChange < MaxUpdates + 2
  /\ hStatus' = IF hUpdates # <<>> THEN hUpdates[Len(hUpdates)] ELSE hStatus
  /\ hUpdates' = <<hNet>>
  /\ hRead' = hNet
  /\ hOnChange' = hOnChange + 1
  /\ hUnsub' = hUnsub + 1
  /\ UNCHANGED <<hPc, hNet, hLast, hListening>>
  /\ UNCHANGED nonHookVars

\* React renders the component again, for queued setStatus calls or because
\* its parent rendered: the queued updates are applied in order, the effect
\* with its empty dependency list is not run again
UseNetSignal_render ==
  /\ hPc = "mounted"
  /\ hStatus' = IF hUpdates # <<>> THEN hUpdates[Len(hUpdates)] ELSE hStatus
  /\ hUpdates' = <<>>
  /\ UNCHANGED <<hPc, hNet, hRead, hLast, hOnChange, hListening, hUnsub>>
  /\ UNCHANGED nonHookVars

\* the component unmounts: the effect cleanup calls unsubscribe
UseNetSignal_unmount ==
  /\ hPc = "mounted"
  /\ hPc' = "gone"
  /\ hListening' = FALSE
  /\ hUnsub' = hUnsub + 1
  /\ hUpdates' = <<>>
  /\ UNCHANGED <<hNet, hStatus, hRead, hLast, hOnChange>>
  /\ UNCHANGED nonHookVars

NextHook ==
  \/ \E p \in Statuses : HookNetChanges(p)
  \/ UseNetSignal_mount
  \/ UseNetSignal_effect
  \/ \E p \in Statuses : UseNetSignal_callback(p)
  \/ UseNetSignal_render
  \/ UseNetSignal_unmount

\* ============================================== Kotlin NetSignalTurboModule

Threads == {"js", "destroy"}

InitKotlin ==
  /\ listenerCount = 0
  /\ networkCallback = 0
  /\ registered = {}
  /\ created = 0
  /\ kPc = [t \in Threads |-> "idle"]
  /\ kTmp = [t \in Threads |-> 0]
  /\ kCalls = 0

\* the module serves calls until the instance has been destroyed
CanCallModule ==
  /\ platform = "android" /\ hasNative
  /\ kPc["js"] = "idle"
  /\ kPc["destroy"] # "done"
  /\ kCalls < MaxListenerCalls

\* addListener(eventType): listenerCount.getAndIncrement()
AddListener ==
  /\ CanCallModule
  /\ kTmp' = [kTmp EXCEPT !["js"] = listenerCount]
  /\ listenerCount' = listenerCount + 1
  /\ kPc' = [kPc EXCEPT !["js"] = "add_check"]
  /\ kCalls' = kCalls + 1
  /\ UNCHANGED <<networkCallback, registered, created>>
  /\ UNCHANGED nonKotlinVars

\* addListener: if (old == 0 && networkCallback == null) startListening()
AddListenerCheck ==
  /\ kPc["js"] = "add_check"
  /\ kPc' = [kPc EXCEPT !["js"] = IF kTmp["js"] = 0 /\ networkCallback = 0
                                    THEN "start_new" ELSE "idle"]
  /\ UNCHANGED <<listenerCount, networkCallback, registered, created, kTmp, kCalls>>
  /\ UNCHANGED nonKotlinVars

\* startListening: networkCallback = object : NetworkCallback() {...}
StartListeningNew ==
  /\ kPc["js"] = "start_new"
  /\ created' = created + 1
  /\ networkCallback' = created + 1
  /\ kPc' = [kPc EXCEPT !["js"] = "start_read"]
  /\ UNCHANGED <<listenerCount, registered, kTmp, kCalls>>
  /\ UNCHANGED nonKotlinVars

\* startListening: networkCallback!! is evaluated; null throws, and the catch
\* block leaves networkCallback = null
StartListeningRead ==
  /\ kPc["js"] = "start_read"
  /\ IF networkCallback = 0
       THEN /\ kPc' = [kPc EXCEPT !["js"] = "idle"]
            /\ UNCHANGED kTmp
       ELSE /\ kPc' = [kPc EXCEPT !["js"] = "start_register"]
            /\ kTmp' = [kTmp EXCEPT !["js"] = networkCallback]
  /\ UNCHANGED <<listenerCount, networkCallback, registered, created, kCalls>>
  /\ UNCHANGED nonKotlinVars

\* startListening: cm.registerNetworkCallback(request, callback)
StartListeningRegister ==
  /\ kPc["js"] = "start_register"
  /\ registered' = registered \cup {kTmp["js"]}
  /\ kPc' = [kPc EXCEPT !["js"] = "idle"]
  /\ UNCHANGED <<listenerCount, networkCallback, created, kTmp, kCalls>>
  /\ UNCHANGED nonKotlinVars

\* removeListeners(count): listenerCount.addAndGet(-count)
RemoveListeners(count) ==
  /\ CanCallModule
  /\ listenerCount' = listenerCount - count
  /\ kTmp' = [kTmp EXCEPT !["js"] = listenerCount - count]
  /\ kPc' = [kPc EXCEPT !["js"] = "rm_check"]
  /\ kCalls' = kCalls + 1
  /\ UNCHANGED <<networkCallback, registered, created>>
  /\ UNCHANGED nonKotlinVars

\* removeListeners: if (newCount <= 0 && networkCallback != null)
RemoveListenersCheck ==
  /\ kPc["js"] = "rm_check"
  /\ kPc' = [kPc EXCEPT !["js"] = IF kTmp["js"] <= 0 /\ networkCallback # 0
                                    THEN "rm_set" ELSE "idle"]
  /\ UNCHANGED <<listenerCount, networkCallback, registered, created, kTmp, kCalls>>
  /\ UNCHANGED nonKotlinVars

\* removeListeners: listenerCount.set(0), then stopListening()
RemoveListenersSet ==
  /\ kPc["js"] = "rm_set"
  /\ listenerCount' = 0
  /\ kPc' = [kPc EXCEPT !["js"] = "stop_read"]
  /\ UNCHANGED <<networkCallback, registered, created, kTmp, kCalls>>
  /\ UNCHANGED nonKotlinVars

\* onCatalystInstanceDestroy() begins, on its own thread, with stopListening()
OnCatalystInstanceDestroy ==
  /\ platform = "android" /\ hasNative
  /\ kPc["destroy"] = "idle"
  /\ kPc' = [kPc EXCEPT !["destroy"] = "stop_read"]
  /\ UNCHANGED <<listenerCount, networkCallback, registered, created, kTmp, kCalls>>
  /\ UNCHANGED nonKotlinVars

\* where a thread goes on when its stopListening() returns
AfterStop(t) == IF t = "js" THEN "idle" ELSE "set"

\* stopListening: networkCallback?.let { ... } reads the field
StopListeningRead(t) ==
  /\ kPc[t] = "stop_read"
  /\ IF networkCallback = 0
       THEN /\ kPc' = [kPc EXCEPT ![t] = AfterStop(t)]
            /\ UNCHANGED kTmp
       ELSE /\ kPc' = [kPc EXCEPT ![t] = "stop_unregister"]
            /\ kTmp' = [kTmp EXCEPT ![t] = networkCallback]
  /\ UNCHANGED <<listenerCount, networkCallback, registered, created, kCalls>>
  /\ UNCHANGED nonKotlinVars

\* stopListening: connectivityManager?.unregisterNetworkCallback(it); for a
\* callback that is not registered the call changes nothing, and whether it
\* throws or not the next statement executed is networkCallback = null
StopListeningUnregister(t) ==
  /\ kPc[t] = "stop_unregister"
  /\ registered' = registered \ {kTmp[t]}
  /\ kPc' = [kPc EXCEPT ![t] = "stop_null"]
  /\ UNCHANGED <<listenerCount, networkCallback, created, kTmp, kCalls>>
  /\ UNCHANGED nonKotlinVars

\* stopListening: networkCallback = null
StopListeningNull(t) ==
  /\ kPc[t] = "stop_null"
  /\ networkCallback' = 0
  /\ kPc' = [kPc EXCEPT ![t] = AfterStop(t)]
  /\ UNCHANGED <<listenerCount, registered, created, kTmp, kCalls>>
  /\ UNCHANGED nonKotlinVars

\* onCatalystInstanceDestroy: listenerCount.set(0), and it returns
OnCatalystInstanceDestroySet ==
  /\ kPc["destroy"] = "set"
  /\ listenerCount' = 0
  /\ kPc' = [kPc EXCEPT !["destroy"] = "done"]
  /\ UNCHANGED <<networkCallback, registered, created, kTmp, kCalls>>
  /\ UNCHANGED nonKotlinVars

NextKotlin ==
  \/ AddListener
  \/ AddListenerCheck
  \/ StartListeningNew
  \/ StartListeningRead
  \/ StartListeningRegister
  \/ \E count \in 1..2 : RemoveListeners(count)
  \/ RemoveListenersCheck
  \/ RemoveListenersSet
  \/ OnCatalystInstanceDestroy
  \/ \E t \in Threads : StopListeningRead(t)
  \/ \E t \in Threads : StopListeningUnregister(t)
  \/ \E t \in Threads : StopListeningNull(t)
  \/ OnCatalystInstanceDestroySet

\* ===================================================== JS NetSignalModule

\* the listener functions a caller passes
ListenerFns == {"f", "g"}

InitJsModule ==
  /\ jmListeners = {}
  /\ jmRegs = <<>>
  /\ jmEmitter = 0
  /\ jmAdds = 0
  /\ jmRemoves = 0

\* addEventListener(listener)
NetSignalModule_addEventListener(fn) ==
  /\ Len(jmRegs) < MaxRegistrations
  /\ IF jmListeners = {}
       THEN /\ jmAdds' = jmAdds + 1
            /\ jmEmitter' = jmEmitter + 1
       ELSE UNCHANGED <<jmAdds, jmEmitter>>
  /\ jmListeners' = jmListeners \cup {fn}
  /\ jmRegs' = Append(jmRegs, [fn |-> fn, calls |-> 0])
  /\ UNCHANGED jmRemoves
  /\ UNCHANGED nonJsModuleVars

\* the function addEventListener returned for registration i
NetSignalModule_unsubscribe(i) ==
  /\ i \in DOMAIN jmRegs
  /\ jmRegs[i].calls < MaxUnsubscribeCalls
  /\ jmRegs' = [jmRegs EXCEPT ![i].calls = @ + 1]
  /\ jmListeners' = jmListeners \ {jmRegs[i].fn}
  /\ IF jmListeners \ {jmRegs[i].fn} = {}
       THEN /\ jmEmitter' = 0
            /\ jmRemoves' = jmRemoves + 1
       ELSE UNCHANGED <<jmEmitter, jmRemoves>>
  /\ UNCHANGED jmAdds
  /\ UNCHANGED nonJsModuleVars

NextJsModule ==
  \/ \E fn \in ListenerFns : NetSignalModule_addEventListener(fn)
  \/ \E i \in 1..MaxRegistrations : NetSignalModule_unsubscribe(i)

\* ========================================================== NetSignalClass

EventTypes == {"connectionChange", "connectivityChange"}

InitClass ==
  /\ isMonitoring = FALSE
  /\ forwarded = <<>>
  /\ monCalls = 0
  /\ clock = 1
  /\ clsListeners = {}
  /\ clsRegs = <<>>
  /\ emitterActive = {}
  /\ nativeConnected = FALSE
  /\ wPc = "idle"
  /\ wResult = FALSE
  /\ wResolves = 0
  /\ wTimer = "none"
  /\ wSub = 0

\* index.tsx is loaded where the native module is linked
ClassExists == platform # "web" /\ hasNative

\* time passes
ClockTick ==
  /\ ClassExists
  /\ clock < MaxClock
  /\ clock' = clock + 1
  /\ UNCHANGED <<isMonitoring, forwarded, monCalls, clsListeners, clsRegs,
                 emitterActive, nativeConnected, wPc, wResult, wResolves,
                 wTimer, wSub>>
  /\ UNCHANGED nonClassVars

\* a startMonitoring that forwards the call before it looks at the flag
StartMonitoringAlwaysForwards ==
  /\ ClassExists
  /\ monCalls < MaxMonitorCalls
  /\ monCalls' = monCalls + 1
  /\ forwarded' = Append(forwarded, "start")
  /\ isMonitoring' = TRUE
  /\ UNCHANGED <<clock, clsListeners, clsRegs, emitterActive,
                 nativeConnected, wPc, wResult, wResolves, wTimer, wSub>>
  /\ UNCHANGED nonClassVars

\* startMonitoring(intervalMs)
StartMonitoring ==
  /\ ClassExists
  /\ monCalls < MaxMonitorCalls
  /\ monCalls' = monCalls + 1
  /\ IF isMonitoring
       THEN UNCHANGED <<forwarded, isMonitoring>>
       ELSE /\ forwarded' = Append(forwarded, "start")
            /\ isMonitoring' = TRUE
  /\ UNCHANGED <<clock, clsListeners, clsRegs, emitterActive,
                 nativeConnected, wPc, wResult, wResolves, wTimer, wSub>>
  /\ UNCHANGED nonClassVars

\* stopMonitoring()
StopMonitoring ==
  /\ ClassExists
  /\ monCalls < MaxMonitorCalls
  /\ monCalls' = monCalls + 1
  /\ IF ~isMonitoring
       THEN UNCHANGED <<forwarded, isMonitoring>>
       ELSE /\ forwarded' = Append(forwarded, "stop")
            /\ isMonitoring' = FALSE
  /\ UNCHANGED <<clock, clsListeners, clsRegs, emitterActive,
                 nativeConnected, wPc, wResult, wResolves, wTimer, wSub>>
  /\ UNCHANGED nonClassVars

\* `${eventType}_${Date.now()}`
ListenerId(eventType, now) == <<eventType, now>>

\* Map.prototype.set: the entry of the key is replaced
MapSet(m, key, value) == {e \in m : e[1] # key} \cup {<<key, value>>}

\* Map.prototype.delete
MapDelete(m, key) == {e \in m : e[1] # key}

\* addEventListener(eventType, handler): what it does to the emitter, the
\* map and the record of registrations
Registered(eventType, handler) ==
  /\ clsRegs' = Append(clsRegs, [type |-> eventType, handler |-> handler, at |-> clock])
  /\ emitterActive' = emitterActive \cup {Len(clsRegs) + 1}
  /\ clsListeners' = MapSet(clsListeners, ListenerId(eventType, clock), Len(clsRegs) + 1)

\* addEventListener(eventType, handler) called by the application
AddEventListener(eventType) ==
  /\ ClassExists
  /\ Len(clsRegs) < MaxClassListeners
  /\ Registered(eventType, "user")
  /\ UNCHANGED <<isMonitoring, forwarded, monCalls, clock, nativeConnected,
                 wPc, wResult, wResolves, wTimer, wSub>>
  /\ UNCHANGED nonClassVars

\* the function addEventListener returned for the i-th registration:
\* subscription.remove(); this.listeners.delete(listenerId)
ClassUnsubscribe(i) ==
  /\ i \in DOMAIN clsRegs
  /\ clsRegs[i].handler = "user"
  /\ i \in emitterActive
  /\ emitterActive' = emitterActive \ {i}
  /\ clsListeners' = MapDelete(clsListeners, ListenerId(clsRegs[i].type, clsRegs[i].at))
  /\ UNCHANGED <<isMonitoring, forwarded, monCalls, clock, clsRegs,
                 nativeConnected, wPc, wResult, wResolves, wTimer, wSub>>
  /\ UNCHANGED nonClassVars

\* removeAllListeners(): every subscription in the map is removed, the map
\* is cleared
RemoveAllListeners ==
  /\ ClassExists
  /\ clsRegs # <<>>
  /\ emitterActive' = emitterActive \ {e[2] : e \in clsListeners}
  /\ clsListeners' = {}
  /\ UNCHANGED <<isMonitoring, forwarded, monCalls, clock, clsRegs, nativeConnected,
                 wPc, wResult, wResolves, wTimer, wSub>>
  /\ UNCHANGED nonClassVars

\* waitForConnection(timeoutMs): resolves at once when connected, otherwise
\* arms the timer and subscribes the wait handler
WaitForConnection ==
  /\ ClassExists
  /\ wPc = "idle"
  /\ IF nativeConnected
       THEN /\ wPc' = "resolved"
            /\ wResult' = TRUE
            /\ wResolves' = wResolves + 1
            /\ UNCHANGED <<wTimer, wSub, clsRegs, emitterActive, clsListeners>>
       ELSE /\ wPc' = "waiting"
            /\ wTimer' = "armed"
            /\ wSub' = Len(clsRegs) + 1
            /\ Registered("connectivityChange", "wait")
            /\ UNCHANGED <<wResult, wResolves>>
  /\ UNCHANGED <<isMonitoring, forwarded, monCalls, clock, nativeConnected>>
  /\ UNCHANGED nonClassVars

\* the unsubscribe() of the wait handler
WaitUnsubscribed ==
  /\ emitterActive' = emitterActive \ {wSub}
  /\ clsListeners' = MapDelete(clsListeners, ListenerId(clsRegs[wSub].type, clsRegs[wSub].at))

\* the native module emits connectivityChange with isConnected; the wait
\* handler, if still subscribed, resolves on true
ConnectivityChange(isConnected) ==
  /\ ClassExists
  /\ nativeConnected # isConnected
  /\ nativeConnected' = isConnected
  /\ IF wSub \in emitterActive /\ isConnected
       THEN /\ wTimer' = "cleared"
            /\ WaitUnsubscribed
            /\ wPc' = "resolved"
            /\ wResult' = TRUE
            /\ wResolves' = wResolves + 1
       ELSE UNCHANGED <<wTimer, emitterActive, clsListeners, wPc, wResult, wResolves>>
  /\ UNCHANGED <<isMonitoring, forwarded, monCalls, clock, clsRegs, wSub>>
  /\ UNCHANGED nonClassVars

\* the timeout callback: unsubscribe(); resolve(false)
WaitTimerFires ==
  /\ wTimer = "armed"
  /\ wTimer' = "fired"
  /\ WaitUnsubscribed
  /\ wPc' = "resolved"
  /\ wResult' = FALSE
  /\ wResolves' = wResolves + 1
  /\ UNCHANGED <<isMonitoring, forwarded, monCalls, clock, clsRegs, nativeConnected, wSub>>
  /\ UNCHANGED nonClassVars

NextClass ==
  \/ ClockTick
  \/ StartMonitoring
  \/ StopMonitoring
  \/ \E eventType \in EventTypes : AddEventListener(eventType)
  \/ \E i \in 1..(MaxClassListeners + 1) : ClassUnsubscribe(i)
  \/ RemoveAllListeners
  \/ WaitForConnection
  \/ \E isConnected \in BOOLEAN : ConnectivityChange(isConnected)
  \/ WaitTimerFires

\* ================================================== hooks.ts useNetSignal

\* the options objects a component passes
OptionValues == {"{}", "{autoStart: true}", "{autoStart: false}", "{checkInterval: 1000}"}

\* Object.keys(options).length > 0
HasKeys(options) == options # "{}"

\* options.autoStart !== false
AutoStart(options) == options # "{autoStart: false}"

InitOptHook ==
  /\ oPc = "unmounted"
  /\ oOptions = "{}"
  /\ oInit = "none"
  /\ oIsMonitoring = FALSE
  /\ oCaptured = FALSE
  /\ oCalls = <<>>

\* the calls the application made through the returned startMonitoring and
\* stopMonitoring
UserCalls == Len(SelectSeq(oCalls, LAMBDA c : c.by = "user"))

\* first render and the initialize effect: useState(false), the cleanup
\* closes over the isMonitoring of this render, initializeNetSignal starts
UseNetSignalOptions_mount(options) ==
  /\ ClassExists
  /\ oPc = "unmounted"
  /\ oPc' = "mounted"
  /\ oOptions' = options
  /\ oIsMonitoring' = FALSE
  /\ oCaptured' = FALSE
  /\ oInit' = IF HasKeys(options) THEN "configure" ELSE "getStatus"
  /\ UNCHANGED oCalls
  /\ UNCHANGED nonOptHookVars

\* await NetSignal.configure(options) settles
ConfigureSettles(ok) ==
  /\ oInit = "configure"
  /\ oInit' = IF ok THEN "getStatus" ELSE "failed"
  /\ UNCHANGED <<oPc, oOptions, oIsMonitoring, oCaptured, oCalls>>
  /\ UNCHANGED nonOptHookVars

\* await NetSignal.getStatus() settles; on success the status is set and
\* monitoring auto-starts
GetStatusSettles(ok) ==
  /\ oInit = "getStatus"
  /\ IF ~ok
       THEN /\ oInit' = "failed"
            /\ UNCHANGED <<oIsMonitoring, oCalls>>
       ELSE /\ oInit' = "done"
            /\ IF AutoStart(oOptions)
                 THEN /\ oCalls' = Append(oCalls, [call |-> "start", by |-> "init"])
                      /\ oIsMonitoring' = (oPc = "mounted")
                 ELSE UNCHANGED <<oIsMonitoring, oCalls>>
  /\ UNCHANGED <<oPc, oOptions, oCaptured>>
  /\ UNCHANGED nonOptHookVars

\* the returned startMonitoring()
UseNetSignalOptions_startMonitoring ==
  /\ oPc = "mounted"
  /\ UserCalls < MaxHookCalls
  /\ oCalls' = Append(oCalls, [call |-> "start", by |-> "user"])
  /\ oIsMonitoring' = TRUE
  /\ UNCHANGED <<oPc, oOptions, oInit, oCaptured>>
  /\ UNCHANGED nonOptHookVars

\* the returned stopMonitoring()
UseNetSignalOptions_stopMonitoring ==
  /\ oPc = "mounted"
  /\ UserCalls < MaxHookCalls
  /\ oCalls' = Append(oCalls, [call |-> "stop", by |-> "user"])
  /\ oIsMonitoring' = FALSE
  /\ UNCHANGED <<oPc, oOptions, oInit, oCaptured>>
  /\ UNCHANGED nonOptHookVars

\* unmount: the cleanup of the initialize effect, `if (isMonitoring)
\* NetSignal.stopMonitoring()` over the captured isMonitoring
UseNetSignalOptions_unmount ==
  /\ oPc = "mounted"
  /\ oPc' = "gone"
  /\ oCalls' = IF oCaptured
                 THEN Append(oCalls, [call |-> "stop", by |-> "cleanup"])
                 ELSE oCalls
  /\ UNCHANGED <<oOptions, oInit, oIsMonitoring, oCaptured>>
  /\ UNCHANGED nonOptHookVars

NextOptHook ==
  \/ \E options \in OptionValues : UseNetSignalOptions_mount(options)
  \/ \E ok \in BOOLEAN : ConfigureSettles(ok)
  \/ \E ok \in BOOLEAN : GetStatusSettles(ok)
  \/ UseNetSignalOptions_startMonitoring
  \/ UseNetSignalOptions_stopMonitoring
  \/ UseNetSignalOptions_unmount

\* ===================================================== useNetworkProbe

\* the values options.interval takes
IntervalValues == {0, 1000}

InitNetProbe ==
  /\ npPc = "unmounted"
  /\ npInterval = 0
  /\ npStarted = <<>>
  /\ npInFlight = {}
  /\ npCompleted = {}
  /\ npIsLoading = FALSE
  /\ npResult = 0

\* probe() up to its await: setIsLoading(true), probeWithRetry is called
ProbeBegins(by) ==
  /\ npStarted' = Append(npStarted, by)
  /\ npInFlight' = npInFlight \cup {Len(npStarted) + 1}
  /\ npIsLoading' = TRUE

\* first render and the effect: the initial probe, the interval when
\* interval > 0 (url non-empty, enabled)
UseNetworkProbe_mount(interval) ==
  /\ npPc = "unmounted"
  /\ npPc' = "mounted"
  /\ npInterval' = interval
  /\ ProbeBegins("initial")
  /\ UNCHANGED <<npCompleted, npResult>>
  /\ UNCHANGED nonNetProbeVars

\* the interval timer calls probe
UseNetworkProbe_intervalTick ==
  /\ npPc = "mounted"
  /\ npInterval > 0
  /\ Len(npStarted) < MaxHookProbes
  /\ ProbeBegins("interval")
  /\ UNCHANGED <<npPc, npInterval, npCompleted, npResult>>
  /\ UNCHANGED nonNetProbeVars

\* the application calls the returned probe()
UseNetworkProbe_probe ==
  /\ npPc = "mounted"
  /\ Len(npStarted) < MaxHookProbes
  /\ ProbeBegins("manual")
  /\ UNCHANGED <<npPc, npInterval, npCompleted, npResult>>
  /\ UNCHANGED nonNetProbeVars

\* probeWithRetry of the i-th started probe resolves or rejects: setResult
\* with its outcome, then setIsLoading(false); React drops both once the
\* component is unmounted
ProbeSettles(i) ==
  /\ i \in npInFlight
  /\ npInFlight' = npInFlight \ {i}
  /\ IF npPc = "mounted"
       THEN /\ npResult' = i
            /\ npIsLoading' = FALSE
            /\ npCompleted' = npCompleted \cup {i}
       ELSE UNCHANGED <<npResult, npIsLoading, npCompleted>>
  /\ UNCHANGED <<npPc, npInterval, npStarted>>
  /\ UNCHANGED nonNetProbeVars

\* unmount: the effect cleanup clears the interval
UseNetworkProbe_unmount ==
  /\ npPc = "mounted"
  /\ npPc' = "gone"
  /\ UNCHANGED <<npInterval, npStarted, npInFlight, npCompleted, npIsLoading, npResult>>
  /\ UNCHANGED nonNetProbeVars

NextNetProbe ==
  \/ \E interval \in IntervalValues : UseNetworkProbe_mount(interval)
  \/ UseNetworkProbe_intervalTick
  \/ UseNetworkProbe_probe
  \/ \E i \in 1..MaxHookProbes : ProbeSettles(i)
  \/ UseNetworkProbe_unmount

\* ============================================ NetSignalTurboModule (Kotlin)

Transports == {"ethernet", "wifi", "cellular", "other"}

NoNetwork == [transport |-> "none", internet |-> FALSE]

\* what cm.activeNetwork and its capabilities can be
ActiveNetworks == {NoNetwork} \cup [transport : Transports, internet : BOOLEAN]

\* the states of the ConnectivityManager: an active network with the
\* INTERNET capability is one of cm.allNetworks
OsStates ==
  {s \in [active : ActiveNetworks, count : 0..MaxNetworks] :
     s.active.internet => s.count >= 1}

InitSummary ==
  /\ osActive = NoNetwork
  /\ osCount = 0
  /\ sPc = "idle"
  /\ sConnected = FALSE
  /\ sType = "none"
  /\ sCount = 0
  /\ sMultiple = FALSE

\* isConnected()
TurboModule_isConnected == osActive.transport # "none" /\ osActive.internet

\* getConnectionType()
TurboModule_getConnectionType ==
  IF osActive.transport = "none" THEN "none"
  ELSE IF osActive.transport = "ethernet" THEN "ethernet"
  ELSE IF osActive.transport = "wifi" THEN "wifi"
  ELSE IF osActive.transport = "cellular" THEN "cellular"
  ELSE "unknown"

\* getActiveConnectionCount()
TurboModule_getActiveConnectionCount == osCount

\* hasMultipleConnections()
TurboModule_hasMultipleConnections == TurboModule_getActiveConnectionCount > 1

\* networks come and go
OsNetworksChange(s) ==
  /\ platform = "android"
  /\ <<s.active, s.count>> # <<osActive, osCount>>
  /\ osActive' = s.active
  /\ osCount' = s.count
  /\ UNCHANGED <<sPc, sConnected, sType, sCount, sMultiple>>
  /\ UNCHANGED nonSummaryVars

\* getSimpleSummary: val connected = isConnected(); putBoolean("connected")
GetSimpleSummary_connected ==
  /\ platform = "android"
  /\ sPc \in {"idle", "done"}
  /\ sConnected' = TurboModule_isConnected
  /\ sPc' = "type"
  /\ UNCHANGED <<osActive, osCount, sType, sCount, sMultiple>>
  /\ UNCHANGED nonSummaryVars

\* putString("type", if (connected) getConnectionType() else "none")
GetSimpleSummary_type ==
  /\ sPc = "type"
  /\ sType' = IF sConnected THEN TurboModule_getConnectionType ELSE "none"
  /\ sPc' = "count"
  /\ UNCHANGED <<osActive, osCount, sConnected, sCount, sMultiple>>
  /\ UNCHANGED nonSummaryVars

\* putDouble("connectionCount", getActiveConnectionCount())
GetSimpleSummary_connectionCount ==
  /\ sPc = "count"
  /\ sCount' = TurboModule_getActiveConnectionCount
  /\ sPc' = "multiple"
  /\ UNCHANGED <<osActive, osCount, sConnected, sType, sMultiple>>
  /\ UNCHANGED nonSummaryVars

\* putBoolean("multipleConnections", hasMultipleConnections()); return map
GetSimpleSummary_multipleConnections ==
  /\ sPc = "multiple"
  /\ sMultiple' = TurboModule_hasMultipleConnections
  /\ sPc' = "done"
  /\ UNCHANGED <<osActive, osCount, sConnected, sType, sCount>>
  /\ UNCHANGED nonSummaryVars

NextSummary ==
  \/ \E s \in OsStates : OsNetworksChange(s)
  \/ GetSimpleSummary_connected
  \/ GetSimpleSummary_type
  \/ GetSimpleSummary_connectionCount
  \/ GetSimpleSummary_multipleConnections

\* ================================================ calculateNetworkQuality

\* the response times handed to calculateNetworkQuality
SampleValues == {0 - 1, 0, 100, 310}

RECURSIVE SeqsUpTo(_, _)
SeqsUpTo(S, n) ==
  IF n = 0 THEN {<<>>}
  ELSE LET shorter == SeqsUpTo(S, n - 1)
       IN shorter \cup {Append(q, x) : q \in shorter, x \in S}

SampleInputs == SeqsUpTo(SampleValues, MaxSamples)

\* samples.reduce((sum, s) => sum + s, 0)
RECURSIVE ReduceSum(_)
ReduceSum(samples) ==
  IF samples = <<>> THEN 0 ELSE Head(samples) + ReduceSum(Tail(samples))

\* Math.min(...samples)
RECURSIVE MathMin(_)
MathMin(samples) ==
  IF Len(samples) = 1 THEN Head(samples)
  ELSE LET m == MathMin(Tail(samples)) IN IF Head(samples) < m THEN Head(samples) ELSE m

\* Math.max(...samples)
RECURSIVE MathMax(_)
MathMax(samples) ==
  IF Len(samples) = 1 THEN Head(samples)
  ELSE LET m == MathMax(Tail(samples)) IN IF Head(samples) > m THEN Head(samples) ELSE m

\* Math.abs
MathAbs(x) == IF x < 0 THEN 0 - x ELSE x

\* the jitter loop: jitterSum += Math.abs(samples[i] - samples[i - 1])
RECURSIVE JitterSum(_)
JitterSum(samples) ==
  IF Len(samples) < 2 THEN 0
  ELSE MathAbs(samples[2] - samples[1]) + JitterSum(Tail(samples))

\* the result for no valid sample
NoQuality ==
  [quality |-> "unknown", average |-> NoRatio, min |-> 0 - 1, max |-> 0 - 1,
   jitter |-> NoRatio]

\* the metrics of a non-empty list of valid samples
MetricsOf(valid) ==
  LET average == Ratio(ReduceSum(valid), Len(valid))
  IN [quality |-> GetQualityFromLatency(average),
      average |-> average,
      min |-> MathMin(valid),
      max |-> MathMax(valid),
      jitter |-> IF Len(valid) > 1
                   THEN Ratio(JitterSum(valid), Len(valid) - 1)
                   ELSE Ratio(0, 1)]

\* a calculateNetworkQuality that keeps the negative samples
CalculateNetworkQualityUnfiltered(samples) ==
  IF samples = <<>> THEN NoQuality ELSE MetricsOf(samples)

\* calculateNetworkQuality(samples)
CalculateNetworkQuality(samples) ==
  LET valid == SelectSeq(samples, LAMBDA s : s >= 0)
  IN IF valid = <<>> THEN NoQuality ELSE MetricsOf(valid)

InitCalc ==
  cqCall = [called |-> FALSE, samples |-> <<>>, result |-> NoQuality]

\* a caller evaluates calculateNetworkQuality(samples)
CalculateNetworkQualityCall(samples) ==
  /\ cqCall' = [called |-> TRUE, samples |-> samples,
                result |-> CalculateNetworkQuality(samples)]
  /\ UNCHANGED nonCalcVars

NextCalc == \E samples \in SampleInputs : CalculateNetworkQualityCall(samples)

\* ========================================================== specifications

Init == InitApi /\ InitProbe /\ InitAndroid /\ InitQuality /\ InitRetry
        /\ InitHook /\ InitKotlin /\ InitJsModule /\ InitClass /\ InitOptHook /\ InitNetProbe /\ InitSummary /\ InitCalc

\* status, subscription and events
Spec == Init /\ [][Next]_vars

\* the probe
SpecProbe == Init /\ [][NextProbe]_vars

\* timers fire: the event loop runs every due timer callback
FairSpecProbe == SpecProbe /\ WF_vars(TimerFires)

\* the Android module, its callback thread and the JS thread
SpecAndroid == Init /\ [][NextAndroid]_vars

\* a component with the useNetSignal hook
SpecHook == Init /\ [][NextHook]_vars

\* the Kotlin module under listener calls and instance destruction
SpecKotlin == Init /\ [][NextKotlin]_vars

\* callers of getQualityFromLatency
SpecQuality == Init /\ [][NextQuality]_vars

\* a caller of probeWithRetry
SpecRetry == Init /\ [][NextRetry]_vars

\* the probe passed to probeWithRetry settles, and the delay timer fires
FairSpecRetry ==
  SpecRetry /\ WF_vars(\E r \in AttemptResults : AttemptSettles(r)) /\ WF_vars(DelayElapses)

\* callers of the JS NetSignalModule
SpecJsModule == Init /\ [][NextJsModule]_vars

SpecClass == Init /\ [][NextClass]_vars

SpecOptHook == Init /\ [][NextOptHook]_vars

SpecNetProbe == Init /\ [][NextNetProbe]_vars

SpecSummary == Init /\ [][NextSummary]_vars

SpecCalc == Init /\ [][NextCalc]_vars

\* ================================================================== claims

\* the status a facade should hold after reading the navigator n
DerivedType(n) ==
  IF ~n.onLine THEN "none"
  ELSE IF hasConn /\ n.type # "" THEN n.type
  ELSE IF hasConn /\ n.effectiveType # <<>>
    THEN (IF \E i \in DOMAIN n.effectiveType : n.effectiveType[i] = "g"
            THEN "cellular" ELSE "wifi")
  ELSE "unknown"

\* C1: on web the cached pair of NetSignalImpl, and of a WebNetSignal whose
\* cleanup() was not called, is the one read from the navigator at the latest
\* event the browser dispatched (at construction if none): isConnected()
\* returns that navigator.onLine and getType() the type derived from that
\* same navigator.
C1_LastWriteWins ==
  platform = "web" =>
    /\ webState = [isConnected |-> atEvent.onLine, type |-> DerivedType(atEvent)]
    /\ (ret.op = "isConnected" /\ ret.impl = "universal" => ret.bool = atEvent.onLine)
    /\ (ret.op = "getType" /\ ret.impl = "universal" => ret.str = DerivedType(atEvent))
    /\ globalHandlers # <<>> =>
         /\ state = [isConnected |-> atEvent.onLine, type |-> DerivedType(atEvent)]
         /\ (ret.op = "isConnected" /\ ret.impl = "web" => ret.bool = atEvent.onLine)
         /\ (ret.op = "getType" /\ ret.impl = "web" => ret.str = DerivedType(atEvent))

\* an 'online' event has just run the handlers of both facades and an
\* onChange callback, and both facades hold the status read at that event
C1_Witness ==
  /\ platform = "web"
  /\ globalHandlers # <<>>
  /\ invoked # {}
  /\ atEvent = [onLine |-> TRUE, type |-> "", effectiveType |-> <<"4", "g">>]
  /\ state = [isConnected |-> TRUE, type |-> "cellular"]
  /\ webState = state

\* the facades C2 is about
NativeBacked == {"native", "universal"}

\* C2 as stated: without NativeModules.NetSignal, isConnected() returns false,
\* getType() returns 'unknown', onChange returns a no-op and never invokes cb.
C2_Original ==
  ~hasNative =>
    /\ (ret.op = "isConnected" /\ ret.impl \in NativeBacked => ret.bool = FALSE)
    /\ (ret.op = "getType" /\ ret.impl \in NativeBacked => ret.str = "unknown")
    /\ \A i \in DOMAIN subs :
         subs[i].impl \in NativeBacked =>
           /\ subs[i].kind = "noop"
           /\ \A r \in invoked : r.id # i

\* C2 (amended): without NativeModules.NetSignal and off the web platform,
\* isConnected() returns false, getType() returns 'unknown', and onChange
\* returns a no-op unsubscribe function (calling it touches no listener list)
\* and never invokes cb.
C2_SafeDefaults ==
  /\ [](~hasNative /\ platform # "web" =>
          /\ (ret.op = "isConnected" /\ ret.impl \in NativeBacked => ret.bool = FALSE)
          /\ (ret.op = "getType" /\ ret.impl \in NativeBacked => ret.str = "unknown")
          /\ \A i \in DOMAIN subs :
               /\ subs[i].kind = "noop"
               /\ \A r \in invoked : r.id # i)
  /\ [][~hasNative /\ platform # "web" =>
          UNCHANGED <<winOnline, winOffline, connChange, emitterSubs, listeners>>]_vars

C2_Witness ==
  /\ ~hasNative /\ platform # "web"
  /\ ret.op = "isConnected" /\ ret.impl = "universal"
  /\ \E i \in DOMAIN subs : subs[i].impl = "native" /\ subs[i].unsubscribed
  /\ \E i \in DOMAIN subs : subs[i].impl = "universal" /\ ~subs[i].unsubscribed

\* C3: WebNetSignal.probe never rejects: it resolves to a ProbeResult, and a
\* result that carries an error has reachable = false and responseTime = -1.
C3_NeverRejects ==
  call.impl = "web" /\ pc = "done" =>
    /\ outcome.kind = "resolved"
    /\ (outcome.error # NoError =>
          ~outcome.reachable /\ outcome.responseTime = 0 - 1)

\* the fetch of a WebNetSignal.probe call failed and the probe resolved with
\* the error result
C3_Witness ==
  /\ call.impl = "web" /\ pc = "done"
  /\ fetchP = "rejected"
  /\ outcome = Resolved(FALSE, 0 - 1, "Failed to fetch")

TimeoutErrors == {"Request timeout", AbortError.message}

\* C5: a probe on web (WebNetSignal.probe, NetSignalImpl.probeWeb) is decided
\* by whichever comes first, the fetch settling or the timer firing; the
\* promise settles exactly once, and what happens later in the same call (a
\* late response, the timer firing after the fetch settled) changes nothing.
C5_RaceDecidedOnce ==
  /\ [](/\ settles <= 1
        /\ (pc = "done" => settles = 1)
        /\ (first = "timer" =>
              pc = "done" /\ ~outcome.reachable /\ outcome.error \in TimeoutErrors)
        /\ (first = "fetch" =>
              pc = "done" /\ outcome.error \notin TimeoutErrors))
  /\ [][pc = "done" /\ probes' = probes =>
          outcome' = outcome /\ settles' = settles /\ pc' = "done"]_vars

\* the timer fired after the fetch had already failed, and the failure stands
C5_Witness ==
  /\ pc = "done"
  /\ timer = "fired"
  /\ fetchP = "rejected"
  /\ outcome.error = "Failed to fetch"

Subscribed == {i \in DOMAIN subs : subs[i].impl = "web" /\ ~subs[i].unsubscribed}

\* C7 as stated: every change of the cached status of a WebNetSignal is
\* followed by an invocation of every subscribed onChange callback with the
\* new status.
C7_EveryChangeNotifies ==
  [][platform = "web" /\ state' # state =>
       \A i \in Subscribed : [id |-> i, status |-> state'] \in invoked']_vars

\* the subscriptions an event reaches: window events reach the handlers of
\* WebNetSignal and NetSignalImpl on web, connectionChange reaches the
\* emitter's subscribers
Reached(kind) == {i \in DOMAIN subs : subs[i].kind = kind /\ ~subs[i].unsubscribed}

\* C8: once the function returned by onChange(cb) has been called, no later
\* event invokes cb; every other subscribed callback keeps being invoked by
\* the events of its platform; calling the same function again changes no
\* listener list and no subscription.
C8_Unsubscribe ==
  [][/\ \A i \in DOMAIN subs :
          subs[i].unsubscribed => \A r \in invoked' : r.id # i
     /\ (FireOnline \/ FireOffline =>
           \A i \in Reached("window") : \E r \in invoked' : r.id = i)
     /\ (OsCallback =>
           \A i \in Reached("emitter") : \E r \in invoked' : r.id = i)
     /\ \A i \in DOMAIN subs :
          subs[i].unsubscribed /\ Unsubscribe(i) =>
            UNCHANGED <<winOnline, winOffline, connChange, emitterSubs,
                        listeners, subs, state, webState>>]_vars

\* an event has just invoked a subscribed callback and passed over one
\* that was unsubscribed before
C8_Witness ==
  \E i, j \in DOMAIN subs :
    /\ subs[i].unsubscribed /\ ~subs[j].unsubscribed
    /\ subs[i].kind = subs[j].kind
    /\ \E r \in invoked : r.id = j
    /\ \A r \in invoked : r.id # i

\* C9 as stated: getType() returns one of wifi, cellular, ethernet, none,
\* unknown, for every facade and every value the browser reports.
C9_TypeInEnum == ret.op = "getType" => ret.str \in ConnectionType

\* the inputs C10 lets through
UrlAccepted(u) == ParseURL(u).ok /\ ParseURL(u).protocol \in {"http:", "https:"}
TimeoutInRange(t) == ~t.nan /\ 0 < t.v /\ t.v <= ProbeMax

\* C10 as stated: WebNetSignal.probe and NativeNetSignal.probe (native module
\* present) issue the request only when the URL is an http(s) URL and
\* 0 < timeoutMs <= 60000; for every other input no request is issued and an
\* error outcome is produced.
C10_ValidationPrecedes ==
  (pc # "idle" /\ (call.impl = "web" \/ (call.impl = "native" /\ hasNative))) =>
    IF UrlAccepted(call.url) /\ TimeoutInRange(call.timeoutMs)
      THEN requests = 1
      ELSE /\ requests = 0
           /\ pc = "done"
           /\ IF call.impl = "web"
                THEN outcome.kind = "resolved" /\ outcome.error # NoError
                ELSE outcome \in {Rejected("InvalidURLError"),
                                  Rejected("InvalidTimeoutError")}

\* the listeners of a WebNetSignal that are registered at an event target
WebRegistered ==
  {i \in DOMAIN winOnline : winOnline[i].impl = "web"}
    \cup {i \in DOMAIN winOffline : winOffline[i].impl = "web"}
    \cup {i \in DOMAIN connChange : connChange[i].impl = "web"}

\* C11 as stated: when cleanup() returns, no handler of the WebNetSignal is
\* registered any more, neither the constructor's online/offline/change
\* handlers nor a handler installed through onChange.
C11_CleanupRemovesAll == [][Cleanup => WebRegistered' = {}]_vars

\* C12 as stated: NativeNetSignal.probe (native module present) produces the
\* outcome WebNetSignal.probe produces for the same call: it resolves, and
\* for an input that is rejected before any request it resolves to the
\* ProbeResult WebNetSignal.probe returns for that input.
C12_SameOutcome ==
  (pc = "done" /\ call.impl = "native" /\ hasNative) =>
    /\ outcome.kind = "resolved"
    /\ requests = 0 => outcome = WebValidation(call.url, call.timeoutMs)

\* C13: in the Android module every OS callback first refreshes the cached
\* pair and then emits exactly one connectionChange event: the i-th event
\* emitted carries the pair the i-th callback's updateState wrote, and the
\* only callback without its event is the one between updateState and emit.
C13_NativeChangeEvents ==
  /\ Len(emitted) = Len(ran) - (IF aPc = "updated" THEN 1 ELSE 0)
  /\ \A i \in DOMAIN emitted : emitted[i] = ran[i]
  /\ aPc = "idle" /\ cbQueue = <<>> => Len(emitted) = posted

\* two callbacks with different pairs have run and both events are out
C13_Witness ==
  /\ Len(emitted) = 2 /\ aPc = "idle"
  /\ emitted[1] # emitted[2]
  /\ emitted[2] = [isConnected |-> connected, type |-> type]

C15_BoundedLoop ==
  /\ [](rwCalls <= rwRetries + 1)
  /\ [](rwPc = "done" =>
          /\ rwCalls = rwRetries + 1
          /\ Len(rwResults) = rwRetries + 1
          /\ rwResult.attempts = rwRetries + 1)
  /\ (rwPc \in {"probing", "delay"} ~> rwPc = "done")

\* a call with two retries has finished after a reachable first attempt and
\* a failed second one
C15_Witness ==
  /\ rwPc = "done" /\ rwRetries = 2
  /\ rwResults[1].reachable /\ ~rwResults[2].reachable

\* the attempts of the finished call that were reachable, and their sum
ReachableAttempts == {i \in DOMAIN rwResults : rwResults[i].reachable}
ReachableSum ==
  LET upTo[k \in 0..Len(rwResults)] ==
        IF k = 0 THEN 0
        ELSE upTo[k - 1] + (IF rwResults[k].reachable
                              THEN rwResults[k].responseTime ELSE 0)
  IN upTo[Len(rwResults)]

\* the bucket of the latency num/den in the threshold table
BucketOf(num, den) ==
  IF num < 0 THEN "unknown"
  ELSE IF num < 50 * den THEN "excellent"
  ELSE IF num < 150 * den THEN "good"
  ELSE IF num < 300 * den THEN "fair"
  ELSE "poor"

\* C16: the result of probeWithRetry is reachable exactly when an attempt
\* was; then average, minimum and maximum are those of the reachable
\* attempts' response times and quality is the bucket of the average; when
\* every attempt failed the result is reachable = false, responseTime = -1,
\* quality = 'unknown' with the error of a failed attempt.
C16_Aggregation ==
  rwPc = "done" =>
    /\ rwResult.reachable <=> ReachableAttempts # {}
    /\ ReachableAttempts # {} =>
         /\ rwResult.averageResponseTime.num * Cardinality(ReachableAttempts)
              = ReachableSum * rwResult.averageResponseTime.den
         /\ \E i \in ReachableAttempts :
              rwResult.minResponseTime = rwResults[i].responseTime
         /\ \A i \in ReachableAttempts :
              rwResult.minResponseTime <= rwResults[i].responseTime
         /\ \E i \in ReachableAttempts :
              rwResult.maxResponseTime = rwResults[i].responseTime
         /\ \A i \in ReachableAttempts :
              rwResult.maxResponseTime >= rwResults[i].responseTime
         /\ rwResult.quality = BucketOf(rwResult.averageResponseTime.num,
                                        rwResult.averageResponseTime.den)
    /\ ReachableAttempts = {} =>
         /\ rwResult.responseTime.num = 0 - rwResult.responseTime.den
         /\ rwResult.quality = "unknown"
         /\ \E i \in DOMAIN rwResults : rwResult.error = rwResults[i].error

\* a call finished with a failed attempt between two reachable ones of
\* different response times
C16_Witness ==
  /\ rwPc = "done" /\ Len(rwResults) = 3
  /\ rwResults[1].reachable /\ ~rwResults[2].reachable /\ rwResults[3].reachable
  /\ rwResults[1].responseTime # rwResults[3].responseTime
  /\ rwResult.minResponseTime < rwResult.maxResponseTime

\* what the hook's state is once React has applied the queued updates
HookEffective == IF hUpdates # <<>> THEN hUpdates[Len(hUpdates)] ELSE hStatus

\* C17: while the component is mounted the hook's status is the payload of
\* the most recent event handed to its callback, or, before any event, what
\* the hook read from NetSignal at mount; the hook returns it at the render
\* that follows.
C17_ReflectsLastEvent ==
  /\ hPc = "rendered" => hStatus = hRead
  /\ hPc = "mounted" =>
       HookEffective = (IF hLast.seen THEN hLast.status ELSE hRead)

\* a render has returned the payload of the last event, which is neither
\* what the hook read at mount nor what NetSignal itself reports by now
C17_Witness ==
  /\ hPc = "mounted" /\ hUpdates = <<>>
  /\ hLast.seen /\ hStatus = hLast.status
  /\ hStatus # hNet /\ hStatus # hRead

\* C18 as stated: between calls of addListener and removeListeners (the
\* instance not being destroyed), listenerCount is not negative and a
\* NetworkCallback is registered exactly when listenerCount > 0.
C18_ListenerRefCount ==
  (kPc["js"] = "idle" /\ kPc["destroy"] = "idle") =>
    /\ listenerCount >= 0
    /\ registered # {} <=> listenerCount > 0

\* C19 as stated: at no time is more than one NetworkCallback registered,
\* and once onCatalystInstanceDestroy has returned and the call it overlapped
\* with has returned too, no NetworkCallback is registered and listenerCount
\* is 0.
C19_DestroyThreadSafe ==
  /\ Cardinality(registered) <= 1
  /\ (kPc["destroy"] = "done" /\ kPc["js"] = "idle") =>
       registered = {} /\ listenerCount = 0

\* C20 as stated: the pair the JS thread gets from isConnected() followed by
\* getConnectionType() is a pair some updateState wrote together; it is
\* never (true, 'none') nor (false, a type other than 'none').
C20_PairConsistent ==
  rPc = "done" =>
    /\ [isConnected |-> rConnected, type |-> rType] \in pairs
    /\ rConnected => rType # "none"
    /\ ~rConnected => rType = "none"

\* the registrations whose unsubscribe function has not been called
JmOpen == {i \in DOMAIN jmRegs : jmRegs[i].calls = 0}

\* C21 as stated: removeListeners(1) is never called more often than
\* addListener('netSignalChange'), and the emitter is subscribed to
\* 'netSignalChange' exactly when some registration has not been unsubscribed.
C21_BalancedSubscription ==
  /\ jmRemoves <= jmAdds
  /\ jmEmitter > 0 <=> JmOpen # {}


\* the monitoring calls alternate, beginning with a start
Alternates(calls) ==
  \A i \in DOMAIN calls : calls[i] = IF i % 2 = 1 THEN "start" ELSE "stop"

\* C22: NetSignalClass forwards monitoring calls to the native module in
\* strict alternation, start first; isMonitoring is true exactly after a
\* forwarded start; a startMonitoring while monitoring and a stopMonitoring
\* while not monitoring forward nothing and leave isMonitoring as it was.
C22_MonitoringAlternates ==
  /\ [](Alternates(forwarded) /\ (isMonitoring <=> Len(forwarded) % 2 = 1))
  /\ [][(StartMonitoring /\ isMonitoring) \/ (StopMonitoring /\ ~isMonitoring)
          => UNCHANGED <<forwarded, isMonitoring>>]_vars

\* a start and a stop were forwarded and the third call, a redundant one,
\* forwarded nothing
C22_Witness ==
  /\ forwarded = <<"start", "stop">>
  /\ monCalls = 3
  /\ ~isMonitoring

\* C23: removeAllListeners() removes every subscription made through
\* addEventListener, registrations of one event type in the same millisecond
\* included: afterwards the emitter holds none of them and the listeners map
\* is empty.
C23_RemoveAllRemovesAll ==
  [][RemoveAllListeners => emitterActive' = {} /\ clsListeners' = {}]_vars

\* C24: waitForConnection resolves exactly once: true at once when connected
\* at the call; otherwise true when a connectivityChange carrying true
\* arrives before the timer fires, false when the timer fires first; an
\* event carrying false does not resolve it.
C24_ResolvesOnce ==
  /\ [](/\ wResolves <= 1
        /\ (wPc = "resolved" <=> wResolves = 1)
        /\ (wTimer = "fired" => wPc = "resolved" /\ ~wResult)
        /\ (wPc = "resolved" /\ wTimer # "fired" => wResult))
  /\ [][/\ (WaitForConnection /\ nativeConnected => wPc' = "resolved" /\ wResult')
        /\ (ConnectivityChange(FALSE) => UNCHANGED <<wPc, wResult, wResolves>>)
        /\ (ConnectivityChange(TRUE) /\ wPc = "waiting" /\ wTimer = "armed"
              => wPc' = "resolved" /\ wResult')]_vars


\* the initialization of the hook started monitoring
InitStartedMonitoring == \E i \in DOMAIN oCalls : oCalls[i].by = "init"

\* the effect cleanup called NetSignal.stopMonitoring()
CleanupStopped == \E i \in DOMAIN oCalls : oCalls[i] = [call |-> "stop", by |-> "cleanup"]

\* C25: when the component unmounts after the initialization of
\* useNetSignal(options) started monitoring, the effect cleanup calls
\* NetSignal.stopMonitoring().
C25_CleanupStopsMonitoring ==
  [][UseNetSignalOptions_unmount /\ InitStartedMonitoring => CleanupStopped']_vars


\* the most recently started probe among the completed ones, 0 for none
LatestCompleted ==
  IF npCompleted = {} THEN 0
  ELSE CHOOSE i \in npCompleted : \A j \in npCompleted : j <= i

\* C26: while the component is mounted, isLoading is true exactly while a
\* probe the hook started is in flight, and result holds the outcome of the
\* most recently started probe among those that completed.
C26_LoadingAndResult ==
  npPc = "mounted" =>
    /\ (npIsLoading <=> npInFlight # {})
    /\ npResult = LatestCompleted


\* C27: every map getSimpleSummary returns has type "none" when connected
\* is false, and multipleConnections equal to connectionCount > 1, also
\* when the OS networks change between the reads of the method.
C27_SummaryConsistent ==
  sPc = "done" =>
    /\ (~sConnected => sType = "none")
    /\ (sMultiple <=> sCount > 1)


\* C28: useNetSignal calls NetSignal.onChange exactly once per mount,
\* however often the mounted component renders again; unmounting calls the
\* returned unsubscribe function once, and from then on nothing updates the
\* hook's state.
C28_SubscribesOnce ==
  /\ [](/\ hPc = "mounted" => hOnChange = 1 /\ hUnsub = 0 /\ hListening
        /\ hPc = "gone" => hOnChange = 1 /\ hUnsub = 1 /\ ~hListening)
  /\ [][hPc = "gone" => UNCHANGED <<hStatus, hUpdates>>]_vars

\* the component rendered again for an event and was unmounted; the
\* network status has changed since, the hook's state has not
C28_Witness ==
  /\ hPc = "gone"
  /\ hLast.seen /\ hStatus = hLast.status /\ hStatus # hRead
  /\ hNet # hStatus
  /\ hOnChange = 1 /\ hUnsub = 1


\* the positions of the samples that are not negative
ValidAt(samples) == {i \in DOMAIN samples : samples[i] >= 0}

\* the sum of f over the positions in I
RECURSIVE SumOver(_, _)
SumOver(f, I) ==
  IF I = {} THEN 0
  ELSE LET i == CHOOSE j \in I : TRUE IN f[i] + SumOver(f, I \ {i})

\* the position of the valid sample that follows the valid sample at i
NextValid(samples, i) ==
  CHOOSE j \in ValidAt(samples) :
    j > i /\ \A k \in ValidAt(samples) : k > i => j <= k

\* the absolute differences of consecutive valid samples, by the position
\* of the earlier one
Steps(samples) ==
  LET V == ValidAt(samples)
      last == CHOOSE i \in V : \A k \in V : k <= i
  IN [i \in V \ {last} |->
        LET d == samples[NextValid(samples, i)] - samples[i]
        IN IF d < 0 THEN 0 - d ELSE d]

\* C29: calculateNetworkQuality leaves out the negative samples; without a
\* valid sample quality is 'unknown' and average, min, max and jitter are
\* -1; otherwise min and max are the smallest and largest valid sample,
\* average is their mean and lies between them, quality is the bucket of
\* the average, and jitter is the mean of the absolute differences of
\* consecutive valid samples, 0 for a single one.
C29_QualityMetrics ==
  cqCall.called =>
    LET samples == cqCall.samples
        r == cqCall.result
        V == ValidAt(samples)
    IN IF V = {}
         THEN /\ r.quality = "unknown"
              /\ r.average = Ratio(0 - 1, 1)
              /\ r.min = 0 - 1 /\ r.max = 0 - 1
              /\ r.jitter = Ratio(0 - 1, 1)
         ELSE /\ \E i \in V : r.min = samples[i]
              /\ \E i \in V : r.max = samples[i]
              /\ \A i \in V : r.min <= samples[i] /\ samples[i] <= r.max
              /\ r.average.den = Cardinality(V)
              /\ r.average.num = SumOver(samples, V)
              /\ r.min * r.average.den <= r.average.num
              /\ r.average.num <= r.max * r.average.den
              /\ r.quality = BucketOf(r.average.num, r.average.den)
              /\ IF Cardinality(V) = 1
                   THEN r.jitter.num = 0 /\ r.jitter.den = 1
                   ELSE /\ r.jitter.den = Cardinality(V) - 1
                        /\ r.jitter.num = SumOver(Steps(samples), DOMAIN Steps(samples))

\* a list with a negative sample between valid ones: the mean of 100 and
\* 310 is 205, fair, and the one step between them is the jitter
C29_Witness ==
  /\ cqCall.called
  /\ cqCall.samples = <<100, 0 - 1, 310>>
  /\ cqCall.result.quality = "fair"
  /\ cqCall.result.min = 100 /\ cqCall.result.max = 310
  /\ cqCall.result.jitter = Ratio(210, 1)

====
